---- MODULE Spec2Model ----
(***************************************************************************)
(* Air-quality pipeline: the ingestion gateway (API_DB/api_db.py) and the  *)
(* historical page walker (HistoricalData/historical_manager.py).          *)
(*                                                                         *)
(* Conventions.  Latitudes and longitudes are hundredths of a degree       *)
(* (51.28 is 5128).  A text value that the code parses (a timestamp) is a  *)
(* sequence of one-character strings, so that parsing is computed.  The    *)
(* unit "ug/m3" stands for the code's micro-gram-per-cubic-metre token.    *)
(***************************************************************************)
EXTENDS Integers, Sequences, FiniteSets, TLC

VARIABLES
    usuarios,   \* table Usuario: set of [username, api_key]
    registros,  \* table RegistroAire: set of rows (a row is a dato plus id)
    req,        \* per client connection: the request in flight
    last,       \* the most recent completed call of the gateway and its response
    posted,     \* history: every dato that reached the endpoint body so far
    wPc,        \* walker: position in the page loop of one (sensor, year)
    wPage,      \* walker: local variable page
    wAttempts,  \* walker: number of GETs issued for measurement pages
    wThrottles, \* walker: number of 429 answers seen
    wEmitted,   \* walker: page numbers whose records were handed to the sink
    wPosts,     \* walker: number of records posted to the sink
    wExit,      \* walker: why the page loop was left
    wLog,       \* history: every measurement GET, in order, and its answer
    provRecords,\* provider: number of measurements of the walked (sensor, year)
    hPc,        \* harvest run: position in fetch_and_load_history
    hPol,       \* harvest run: index of the pollutant of the outer loop
    hLocations, \* harvest run: local variable locations
    hLoc,       \* harvest run: index i of the location loop
    hSensor,    \* harvest run: local variable sensor_id
    hYear,      \* harvest run: index of the year of the year loop
    hRun,       \* number of the run of the script
    hPrinted,   \* history: what the run printed
    hFaults,    \* number of failures of a collaborator followed so far
    hPosts,     \* history: the outcome of every POST to the sink
    raw,        \* sink: table london_raw_data, a set of [id, raw_data]
    provWorld,  \* provider: its locations, their sensors and histories
    hCalls,     \* history: every discovery GET (locations, sensors) and its answer
    now,        \* notifier: the clock, in units of 30 minutes
    last_alerts_sent, \* notifier: the global dict, alert_key -> datetime
    notified,   \* history: every call of format_alert_message and its message
    hSignal,    \* harvest run: an interrupt (SIGINT) was delivered to the script
    lPc,        \* live cycle: position in run_ingestion_cycle
    lStations,  \* live cycle: local variable stations
    lIdx,       \* live cycle: index of the station of the loop
    lSent,      \* live cycle: local variable sent_count
    lPrinted,   \* history: what the cycle printed
    lPosts,     \* history: the outcome of every POST of the cycle
    lUpstream,  \* the live provider: "up", or "silent" (it never answers)
    sLast,      \* sink: the most recent request to /ingest and its answer
    dVersion,   \* wait_for_database: "notifier" or "dashboard"
    dMax,       \* wait_for_database: argument max_retries
    dPc,        \* wait_for_database: position in the function
    dAttempt,   \* wait_for_database: number of connection attempts begun
    dPending,   \* the database: what becomes of the attempt under way
    dTries,     \* history: what became of every attempt, in order
    dResult     \* wait_for_database: the value returned

gwVars == <<usuarios, registros, req, last>>
wkVars == <<wPc, wPage, wAttempts, wThrottles, wEmitted, wPosts, wExit, wLog, provRecords>>
hvVars == <<hPc, hPol, hLocations, hLoc, hSensor, hYear, hRun, hPrinted, hFaults,
            hPosts, raw, provWorld, hCalls>>
anVars == <<now, last_alerts_sent, notified>>
sgVars == <<hSignal>>
lvVars == <<lPc, lStations, lIdx, lSent, lPrinted, lPosts, lUpstream>>
skVars == <<sLast>>
dbVars == <<dVersion, dMax, dPc, dAttempt, dPending, dTries, dResult>>
opVars == <<sgVars, lvVars, skVars, dbVars>>
vars == <<usuarios, registros, req, last, posted,
          wPc, wPage, wAttempts, wThrottles, wEmitted, wPosts, wExit, wLog, provRecords,
          hPc, hPol, hLocations, hLoc, hSensor, hYear, hRun, hPrinted, hFaults,
          hPosts, raw, provWorld, hCalls,
          now, last_alerts_sent, notified,
          hSignal,
          lPc, lStations, lIdx, lSent, lPrinted, lPosts, lUpstream,
          sLast,
          dVersion, dMax, dPc, dAttempt, dPending, dTries, dResult>>

(***************************************************************************)
(* datetime.strptime(v, '%Y-%m-%d %H:%M:%S')                               *)
(***************************************************************************)
Digits == {"0", "1", "2", "3", "4", "5", "6", "7", "8", "9"}

DigitVal(ch) ==
    CASE ch = "0" -> 0 [] ch = "1" -> 1 [] ch = "2" -> 2 [] ch = "3" -> 3
      [] ch = "4" -> 4 [] ch = "5" -> 5 [] ch = "6" -> 6 [] ch = "7" -> 7
      [] ch = "8" -> 8 [] ch = "9" -> 9

\* \s of the regular expression strptime builds from a blank in the format
Whitespace == {" ", "\t", "\n"}

RECURSIVE DigitRun(_, _)
\* length of the run of digits of s that starts at position i
DigitRun(s, i) ==
    IF i <= Len(s) /\ s[i] \in Digits THEN 1 + DigitRun(s, i + 1) ELSE 0

RECURSIVE WsRun(_, _)
\* length of the run of whitespace of s that starts at position i
WsRun(s, i) ==
    IF i <= Len(s) /\ s[i] \in Whitespace THEN 1 + WsRun(s, i + 1) ELSE 0

RECURSIVE Num(_, _, _)
\* the number written by the n digits of s that start at position i
Num(s, i, n) ==
    IF n = 0 THEN 0 ELSE 10 * Num(s, i, n - 1) + DigitVal(s[i + n - 1])

At(s, i, ch) == i <= Len(s) /\ s[i] = ch

\* a directive that takes one or two digits: the whole run must fit it
\* (%m: 1[0-2]|0[1-9]|[1-9]; %H: 2[0-3]|[0-1]\d|\d; %M: [0-5]\d|\d;
\*  %S: 6[0-1]|[0-5]\d|\d; %d: 3[01]|[12]\d|0[1-9]|[1-9]| [1-9])
FieldFits(s, i, lo1, lo2, hi2) ==
    LET n == DigitRun(s, i) IN
    \/ n = 1 /\ Num(s, i, 1) >= lo1
    \/ n = 2 /\ Num(s, i, 2) >= lo2 /\ Num(s, i, 2) <= hi2

IsLeap(y) == (y % 4 = 0 /\ y % 100 # 0) \/ y % 400 = 0

DaysInMonth(y, m) ==
    IF m = 2 THEN (IF IsLeap(y) THEN 29 ELSE 28)
    ELSE IF m \in {4, 6, 9, 11} THEN 30 ELSE 31

\* TRUE iff strptime returns a datetime (FALSE: it raises ValueError)
StrptimeOk(s) ==
    /\ DigitRun(s, 1) >= 4
    /\ At(s, 5, "-")
    /\ FieldFits(s, 6, 1, 1, 12)
    /\ LET nm == DigitRun(s, 6)
           pd == 6 + nm + 1
           \* the day: digits, or a blank and one digit
           sp == IF At(s, pd, " ") THEN 1 ELSE 0
           nd == DigitRun(s, pd + sp)
           dayFits == IF sp = 1
                      THEN nd = 1 /\ Num(s, pd + 1, 1) >= 1
                      ELSE FieldFits(s, pd, 1, 1, 31)
           pw == pd + sp + nd
           nw == WsRun(s, pw)
           ph == pw + nw
           nh == DigitRun(s, ph)
           pM == ph + nh + 1
           nM == DigitRun(s, pM)
           pS == pM + nM + 1
           nS == DigitRun(s, pS)
       IN  /\ At(s, 6 + nm, "-")
           /\ dayFits
           /\ nw >= 1
           /\ FieldFits(s, ph, 0, 0, 23)
           /\ At(s, ph + nh, ":")
           /\ FieldFits(s, pM, 0, 0, 59)
           /\ At(s, pM + nM, ":")
           /\ FieldFits(s, pS, 0, 0, 61)
           /\ pS + nS = Len(s) + 1            \* no unconverted data remains
           \* datetime(year, month, day, hour, minute, second)
           /\ Num(s, 1, 4) >= 1
           /\ Num(s, pd + sp, nd) <= DaysInMonth(Num(s, 1, 4), Num(s, 6, nm))
           /\ Num(s, pS, nS) <= 59

\* TLA+ strings are atomic: Chars spells out the characters of each text the
\* model parses.
Chars ==
    ("2024-01-05 10:00:00" :> <<"2","0","2","4","-","0","1","-","0","5"," ","1","0",":","0","0",":","0","0">>)
    @@ ("2024-01-06 10:00:00" :> <<"2","0","2","4","-","0","1","-","0","6"," ","1","0",":","0","0",":","0","0">>)
    @@ ("2024-1-5 10:0:0" :> <<"2","0","2","4","-","1","-","5"," ","1","0",":","0",":","0">>)
    @@ ("2024-01-05T10:00:00Z" :> <<"2","0","2","4","-","0","1","-","0","5","T","1","0",":","0","0",":","0","0","Z">>)
    @@ ("2024-02-30 10:00:00" :> <<"2","0","2","4","-","0","2","-","3","0"," ","1","0",":","0","0",":","0","0">>)

(***************************************************************************)
(* RegistroAire: the validators and the uniqueness constraint              *)
(***************************************************************************)
LAT_MIN == 5128
LAT_MAX == 5169
LON_MIN == -51
LON_MAX == 33

\* the upper limit forgotten
validar_latitud_sin_maximo(v) == LAT_MIN <= v

validar_latitud_londres(v) == LAT_MIN <= v /\ v <= LAT_MAX

validar_longitud_londres(v) == LON_MIN <= v /\ v <= LON_MAX

unidades_permitidas == {"aqi", "ug/m3"}

\* any non-empty token taken for a unit
validar_unidades_no_vacia(v) == v # ""

validar_unidades(v) == v \in unidades_permitidas

\* strptime on every text of Chars, computed once
StrptimeTable == [v \in DOMAIN Chars |-> StrptimeOk(Chars[v])]

\* the validator raises ValueError iff strptime does
validar_formato_fecha(v) == StrptimeTable[v]

\* the date validator attached to sensor_date alone
BodyErrorsSoloSensorDate(d) ==
    (IF validar_latitud_londres(d.lat) THEN <<>> ELSE <<"lat">>)
    \o (IF validar_longitud_londres(d.lon) THEN <<>> ELSE <<"lon">>)
    \o (IF validar_formato_fecha(d.sensor_date) THEN <<>> ELSE <<"sensor_date">>)
    \o (IF validar_unidades(d.unit) THEN <<>> ELSE <<"unit">>)

\* The fields whose validator raises, in the order in which the model class
\* declares its fields (lat, lon, sensor_date, scraped_at, ..., unit): every
\* field is validated and every error is reported.
BodyErrors(d) ==
    (IF validar_latitud_londres(d.lat) THEN <<>> ELSE <<"lat">>)
    \o (IF validar_longitud_londres(d.lon) THEN <<>> ELSE <<"lon">>)
    \o (IF validar_formato_fecha(d.sensor_date) THEN <<>> ELSE <<"sensor_date">>)
    \o (IF validar_formato_fecha(d.scraped_at) THEN <<>> ELSE <<"scraped_at">>)
    \o (IF validar_unidades(d.unit) THEN <<>> ELSE <<"unit">>)

\* the constraint declared without sensor_date
registro_unico_sin_fecha(r) == <<r.station_uid, r.parameter>>

\* UniqueConstraint("station_uid", "sensor_date", "parameter")
registro_unico(r) == <<r.station_uid, r.sensor_date, r.parameter>>

\* no constraint declared
ConflictsNever(rows, d) == FALSE

\* the constraint declared on station_uid alone
ConflictsByStation(rows, d) == \E r \in rows : r.station_uid = d.station_uid

\* the database refuses the INSERT of d
Conflicts(rows, d) == \E r \in rows : registro_unico(r) = registro_unico(d)

CanonicalFields ==
    {"source", "station_uid", "station_name", "lat", "lon", "sensor_date",
     "scraped_at", "parameter", "value", "unit"}

\* the row the database stores for d: id is the generated primary key
NewRow(rows, d) ==
    [f \in CanonicalFields \cup {"id"} |->
        IF f = "id" THEN Cardinality(rows) + 1 ELSE d[f]]

\* the canonical fields of a stored row
DatoOf(r) == [f \in CanonicalFields |-> r[f]]

\* session.merge in place of session.add: an existing row takes the new values
CommitUpsert(rows, d) ==
    IF \E r \in rows : r.station_uid = d.station_uid /\ r.sensor_date = d.sensor_date
                        /\ r.parameter = d.parameter
    THEN {IF r.station_uid = d.station_uid /\ r.sensor_date = d.sensor_date
             /\ r.parameter = d.parameter
          THEN [f \in DOMAIN r |-> IF f = "id" THEN r.id ELSE d[f]] ELSE r : r \in rows}
    ELSE rows \cup {[f \in CanonicalFields \cup {"id"} |->
                        IF f = "id" THEN Cardinality(rows) + 1 ELSE d[f]]}

\* session.add(dato); session.commit(): the rows afterwards
Commit(rows, d) == IF Conflicts(rows, d) THEN rows ELSE rows \cup {NewRow(rows, d)}

(***************************************************************************)
(* Inputs                                                                  *)
(***************************************************************************)
MaxRows == 2    \* rows the store is followed up to

Clients == {"c1", "c2"}

NoKey == "<no header>"

\* "k1" can be registered, "k0" never is
KeysOffered == {"k1", "k0", NoKey}

T1 == "2024-01-05 10:00:00"
T2 == "2024-01-06 10:00:00"
TShort == "2024-1-5 10:0:0"
TIso == "2024-01-05T10:00:00Z"
TFeb30 == "2024-02-30 10:00:00"

Dato(uid, lat, lon, sd, sa, par, val, un) ==
    [source |-> "waqi_realtime", station_uid |-> uid, station_name |-> "A",
     lat |-> lat, lon |-> lon, sensor_date |-> sd, scraped_at |-> sa,
     parameter |-> par, value |-> val, unit |-> un]

\* valid records of three keys, two values each
KeyPool ==
    {Dato(k[1], 5150, -12, k[2], T1, "pm25", val, "aqi") :
        k \in {<<1, T1>>, <<2, T1>>, <<1, T2>>}, val \in {10, 20}}

\* records of one station that differ in the validated fields
FieldPool ==
    {Dato(1, lat, lon, sd, sa, "pm25", 10, un) :
        lat \in {5127, 5128, 5170}, lon \in {-52, 33, 34},
        sd \in {T1, TShort, TIso}, sa \in {T1, TFeb30},
        un \in {"aqi", "ug/m3", "ppm"}}

\* valid records of one station with two timestamps and two values
OrderPool ==
    {Dato(1, 5150, -12, sd, T1, "pm25", val, "aqi") :
        sd \in {T1, T2}, val \in {10, 20}}

(***************************************************************************)
(* The gateway                                                             *)
(***************************************************************************)
Idle == [pc |-> "idle"]

NoCall == [code |-> "none"]

Response(code, key, d, errs) ==
    [code |-> code, key |-> key, dato |-> d, errors |-> errs]

InitGateway ==
    /\ usuarios = {}
    /\ registros = {}
    /\ req = [c \in Clients |-> Idle]
    /\ last = NoCall

\* POST /registrar
registrar_usuario(username, nueva_key) ==
    /\ IF \E u \in usuarios : u.username = username
       THEN UNCHANGED usuarios                         \* 400 User already exists
       ELSE IF \E u \in usuarios : u.api_key = nueva_key
       THEN UNCHANGED usuarios                         \* api_key is unique: the INSERT fails
       ELSE usuarios' = usuarios \cup {[username |-> username, api_key |-> nueva_key]}
    /\ UNCHANGED <<registros, req, last>>

\* POST /insertar-datos, up to the call of the endpoint function: the
\* dependency validar_api_key and the validation of the body.  The response
\* of a request that does not reach the endpoint function, NoCall for one
\* that does.
\*  - header absent: validar_api_key is not called; the request fails with the
\*    header's error and the body's errors (422);
\*  - header present, no such api_key: HTTPException 401 from validar_api_key,
\*    raised before the body is validated;
\*  - body invalid: 422 with every failing field.
Rejection(users, key, d) ==
    IF key = NoKey
    THEN Response("ValidationError", key, d, <<"x-api-key">> \o BodyErrors(d))
    ELSE IF ~ \E u \in users : u.api_key = key
    THEN Response("Unauthorized", key, d, <<>>)
    ELSE LET errs == BodyErrors(d) IN
         IF errs # <<>> THEN Response("ValidationError", key, d, errs) ELSE NoCall

\* The response of the endpoint function.  The INSERT and the check of
\* registro_unico are one step of the database; a violation raises
\* IntegrityError, which nothing catches (500).
EndpointResponse(rows, key, d) ==
    Response(IF Conflicts(rows, d) THEN "IntegrityError" ELSE "OK", key, d, <<>>)

\* the model follows the store up to MaxRows rows
Room(rows, d) == Conflicts(rows, d) \/ Cardinality(rows) < MaxRows

\* a request arrives and is authenticated and validated
Recibir(c, key, d) ==
    /\ req[c].pc = "idle"
    /\ LET r == Rejection(usuarios, key, d) IN
       IF r # NoCall
       THEN /\ last' = r
            /\ UNCHANGED req
       ELSE /\ req' = [req EXCEPT ![c] = [pc |-> "endpoint", key |-> key, dato |-> d]]
            /\ UNCHANGED last
    /\ UNCHANGED <<usuarios, registros>>

\* the endpoint function of a request in flight: session.add, session.commit
insertar(c) ==
    /\ req[c].pc = "endpoint"
    /\ Room(registros, req[c].dato)
    /\ registros' = Commit(registros, req[c].dato)
    /\ last' = EndpointResponse(registros, req[c].key, req[c].dato)
    /\ req' = [req EXCEPT ![c] = Idle]
    /\ UNCHANGED usuarios

\* one whole request, no other request in flight
InsertarDatos(key, d) ==
    /\ \A c \in Clients : req[c].pc = "idle"
    /\ LET r == Rejection(usuarios, key, d) IN
       IF r # NoCall
       THEN /\ last' = r
            /\ UNCHANGED registros
       ELSE /\ Room(registros, d)
            /\ registros' = Commit(registros, d)
            /\ last' = EndpointResponse(registros, key, d)
    /\ UNCHANGED <<usuarios, req>>

\* session.merge in place of session.add: an existing user takes the new key
RegistrarInsertMerge(c) ==
    /\ req[c].pc = "registrar"
    /\ usuarios' = {u \in usuarios : u.username # req[c].username}
                     \cup {[username |-> req[c].username, api_key |-> req[c].api_key]}
    /\ last' = [code |-> "Created", username |-> req[c].username, api_key |-> req[c].api_key]
    /\ req' = [req EXCEPT ![c] = Idle]
    /\ UNCHANGED registros

\* POST /registrar up to session.add: the select finds the name (400), or
\* finds none and nueva_key = secrets.token_urlsafe(32) is drawn
RegistrarSelect(c, username, nueva_key) ==
    /\ req[c].pc = "idle"
    /\ IF \E u \in usuarios : u.username = username
       THEN /\ last' = [code |-> "UserExists", username |-> username, api_key |-> ""]
            /\ UNCHANGED req
       ELSE /\ req' = [req EXCEPT ![c] = [pc |-> "registrar", username |-> username,
                                          api_key |-> nueva_key]]
            /\ UNCHANGED last
    /\ UNCHANGED <<usuarios, registros>>

\* session.add(nuevo_usuario); session.commit(): username is the primary key
\* and api_key is unique, a violation raises IntegrityError (500)
RegistrarInsert(c) ==
    /\ req[c].pc = "registrar"
    /\ IF \E u \in usuarios : u.username = req[c].username \/ u.api_key = req[c].api_key
       THEN /\ UNCHANGED usuarios
            /\ last' = [code |-> "IntegrityError", username |-> req[c].username,
                        api_key |-> ""]
       ELSE /\ usuarios' = usuarios \cup {[username |-> req[c].username,
                                          api_key |-> req[c].api_key]}
            /\ last' = [code |-> "Created", username |-> req[c].username,
                        api_key |-> req[c].api_key]
    /\ req' = [req EXCEPT ![c] = Idle]
    /\ UNCHANGED registros

Usernames == {"u1", "u2"}

\* values secrets.token_urlsafe(32) may return
Tokens == {"k1", "k2"}

WalkerOff ==
    /\ wPc = "off" /\ wPage = 0 /\ wAttempts = 0 /\ wThrottles = 0
    /\ wEmitted = <<>> /\ wPosts = 0 /\ wExit = "none" /\ wLog = <<>>
    /\ provRecords = 0

\* the provider of a run that is not started
NoWorld == [configured |-> FALSE, locations |-> <<>>, sensors |-> <<>>, history |-> <<>>]

\* fetch_and_load_history not called, the sink's table as created
HarvestOff ==
    /\ hPc = "off" /\ hPol = 0 /\ hLocations = <<>> /\ hLoc = 0 /\ hSensor = 0
    /\ hYear = 0 /\ hRun = 0 /\ hPrinted = <<>> /\ hFaults = 0 /\ hPosts = <<>>
    /\ raw = {} /\ provWorld = NoWorld /\ hCalls = <<>>

\* the notifier not started: last_alerts_sent = {}
NotifierOff == now = 0 /\ last_alerts_sent = <<>> /\ notified = <<>>

\* no interrupt delivered
SignalOff == hSignal = FALSE

\* run_ingestion_cycle not called
LiveOff ==
    /\ lPc = "off" /\ lStations = <<>> /\ lIdx = 0 /\ lSent = 0
    /\ lPrinted = <<>> /\ lPosts = <<>> /\ lUpstream = "up"

\* the sink has answered no request
SinkOff == sLast = [status |-> 0]

\* wait_for_database not called
WaitOff ==
    /\ dVersion = "none" /\ dMax = 0 /\ dPc = "off" /\ dAttempt = 0
    /\ dPending = "none" /\ dTries = <<>> /\ dResult = "none"

OpsOff == SignalOff /\ LiveOff /\ SinkOff /\ WaitOff

\* the gateway serving, the walker not started
InitServing == InitGateway /\ posted = {} /\ WalkerOff /\ HarvestOff /\ NotifierOff /\ OpsOff

\* concurrent clients, records that differ in key and value
NextGateway ==
    \/ registrar_usuario("u1", "k1") /\ UNCHANGED <<posted, wkVars, hvVars, anVars, opVars>>
    \/ \E c \in Clients, k \in KeysOffered, d \in KeyPool :
           Recibir(c, k, d) /\ UNCHANGED <<posted, wkVars, hvVars, anVars, opVars>>
    \/ \E c \in Clients : insertar(c) /\ UNCHANGED <<posted, wkVars, hvVars, anVars, opVars>>

SpecGateway == InitServing /\ [][NextGateway]_vars

\* one request at a time, records that differ in the validated fields
NextValidation ==
    \/ registrar_usuario("u1", "k1") /\ UNCHANGED <<posted, wkVars, hvVars, anVars, opVars>>
    \/ \E k \in KeysOffered, d \in FieldPool :
           InsertarDatos(k, d) /\ UNCHANGED <<posted, wkVars, hvVars, anVars, opVars>>

SpecValidation == InitServing /\ [][NextValidation]_vars

\* concurrent clients, the history of what reached the endpoint function
NextOrder ==
    \/ registrar_usuario("u1", "k1") /\ UNCHANGED <<posted, wkVars, hvVars, anVars, opVars>>
    \/ \E c \in Clients, d \in OrderPool :
           /\ Recibir(c, "k1", d)
           /\ posted' = IF req'[c].pc = "endpoint" THEN posted \cup {d} ELSE posted
           /\ UNCHANGED <<wkVars, hvVars, anVars, opVars>>
    \/ \E c \in Clients : insertar(c) /\ UNCHANGED <<posted, wkVars, hvVars, anVars, opVars>>

SpecOrder == InitServing /\ [][NextOrder]_vars

\* concurrent registrations
NextRegistro ==
    \/ \E c \in Clients, username \in Usernames, nueva_key \in Tokens :
          RegistrarSelect(c, username, nueva_key)
          /\ UNCHANGED <<posted, wkVars, hvVars, anVars, opVars>>
    \/ \E c \in Clients : RegistrarInsert(c) /\ UNCHANGED <<posted, wkVars, hvVars, anVars, opVars>>

InitRegistro == InitGateway /\ posted = {} /\ WalkerOff /\ HarvestOff /\ NotifierOff /\ OpsOff

SpecRegistro == InitRegistro /\ [][NextRegistro]_vars

(***************************************************************************)
(* The page loop of fetch_and_load_history for one sensor and one year     *)
(***************************************************************************)
PageLimit == 2      \* records per page (the code asks for 1000)
MaxRecords == 6     \* measurements a walked history holds at most
MaxThrottles == 2   \* 429 answers followed in one walk

\* the number of non-empty pages of a history of n records
NumPages(n) == (n + PageLimit - 1) \div PageLimit

\* the number of records the provider returns for page p of n records
PageSize(n, p) ==
    IF p * PageLimit <= n THEN PageLimit
    ELSE IF (p - 1) * PageLimit < n THEN n - (p - 1) * PageLimit
    ELSE 0

\* one GET of /sensors/{sensor_id}/measurements and the answer it got
Logged(answer) ==
    Append(wLog, [sensor |-> hSensor, year |-> hYear, page |-> wPage, answer |-> answer])

\* page = 1, before the first GET
InitWalker ==
    /\ wPc = "fetch"
    /\ wPage = 1
    /\ wAttempts = 0
    /\ wThrottles = 0
    /\ wEmitted = <<>>
    /\ wPosts = 0
    /\ wExit = "none"
    /\ wLog = <<>>
    /\ provRecords \in 0..MaxRecords

\* page += 2: a page is passed over
FetchOkSkipping ==
    /\ wPc = "fetch"
    /\ wAttempts' = wAttempts + 1
    /\ wLog' = Logged(IF PageSize(provRecords, wPage) = 0 THEN "empty" ELSE "ok")
    /\ IF PageSize(provRecords, wPage) = 0
       THEN /\ wPc' = "done"
            /\ wExit' = "empty"
            /\ UNCHANGED <<wPage, wEmitted, wPosts>>
       ELSE /\ wPosts' = wPosts + PageSize(provRecords, wPage)
            /\ wEmitted' = Append(wEmitted, wPage)
            /\ wPage' = wPage + 2
            /\ wPc' = "pace"
            /\ UNCHANGED wExit
    /\ UNCHANGED <<wThrottles, provRecords>>

\* GET answered 200 with the page's results: an empty list leaves the loop;
\* otherwise every record is posted to the sink (a failed post is passed
\* over), page += 1, and the loop sleeps 0.1 s
FetchOk ==
    /\ wPc = "fetch"
    /\ wAttempts' = wAttempts + 1
    /\ wLog' = Logged(IF PageSize(provRecords, wPage) = 0 THEN "empty" ELSE "ok")
    /\ IF PageSize(provRecords, wPage) = 0
       THEN /\ wPc' = "done"
            /\ wExit' = "empty"
            /\ UNCHANGED <<wPage, wEmitted, wPosts>>
       ELSE /\ wPosts' = wPosts + PageSize(provRecords, wPage)
            /\ wEmitted' = Append(wEmitted, wPage)
            /\ wPage' = wPage + 1
            /\ wPc' = "pace"
            /\ UNCHANGED wExit
    /\ UNCHANGED <<wThrottles, provRecords>>

\* a 429 taken for a served page: page += 1 before the sleep
FetchThrottledAdvancing ==
    /\ wPc = "fetch"
    /\ wThrottles < MaxThrottles
    /\ wAttempts' = wAttempts + 1
    /\ wLog' = Logged("429")
    /\ wThrottles' = wThrottles + 1
    /\ wPage' = wPage + 1
    /\ wPc' = "cooldown"
    /\ UNCHANGED <<wEmitted, wPosts, wExit, provRecords>>

\* GET answered 429: sleep 45 s, then the same page again
FetchThrottled ==
    /\ wPc = "fetch"
    /\ wThrottles < MaxThrottles
    /\ wAttempts' = wAttempts + 1
    /\ wLog' = Logged("429")
    /\ wThrottles' = wThrottles + 1
    /\ wPc' = "cooldown"
    /\ UNCHANGED <<wPage, wEmitted, wPosts, wExit, provRecords>>

\* continue in place of break: the page is asked for again
FetchBadStatusRetry ==
    /\ wPc = "fetch"
    /\ wAttempts' = wAttempts + 1
    /\ wLog' = Logged("status")
    /\ wPc' = "pace"
    /\ UNCHANGED <<wPage, wThrottles, wEmitted, wPosts, wExit, provRecords>>

\* GET answered a status that is neither 200 nor 429: break
FetchBadStatus ==
    /\ wPc = "fetch"
    /\ wAttempts' = wAttempts + 1
    /\ wLog' = Logged("status")
    /\ wPc' = "done"
    /\ wExit' = "status"
    /\ UNCHANGED <<wPage, wThrottles, wEmitted, wPosts, provRecords>>

\* GET raised (connection error, timeout) or the body is no JSON: the except
\* branch prints and breaks
FetchRaised ==
    /\ wPc = "fetch"
    /\ wAttempts' = wAttempts + 1
    /\ wLog' = Logged("exception")
    /\ wPc' = "done"
    /\ wExit' = "exception"
    /\ UNCHANGED <<wPage, wThrottles, wEmitted, wPosts, provRecords>>

\* GET answered 200 with a JSON object that has no "results": .get gives [],
\* which the loop takes for the end of the history
FetchNoResults ==
    /\ wPc = "fetch"
    /\ wAttempts' = wAttempts + 1
    /\ wLog' = Logged("noresults")
    /\ wPc' = "done"
    /\ wExit' = "noresults"
    /\ UNCHANGED <<wPage, wThrottles, wEmitted, wPosts, provRecords>>

\* time.sleep(45) or time.sleep(0.1) returns: the next GET
Wake ==
    /\ wPc \in {"cooldown", "pace"}
    /\ wPc' = "fetch"
    /\ UNCHANGED <<wPage, wAttempts, wThrottles, wEmitted, wPosts, wExit, wLog, provRecords>>

NextWalker ==
    \/ FetchOk /\ UNCHANGED <<gwVars, posted, hvVars, anVars, opVars>>
    \/ FetchThrottled /\ UNCHANGED <<gwVars, posted, hvVars, anVars, opVars>>
    \/ FetchBadStatus /\ UNCHANGED <<gwVars, posted, hvVars, anVars, opVars>>
    \/ FetchRaised /\ UNCHANGED <<gwVars, posted, hvVars, anVars, opVars>>
    \/ FetchNoResults /\ UNCHANGED <<gwVars, posted, hvVars, anVars, opVars>>
    \/ Wake /\ UNCHANGED <<gwVars, posted, hvVars, anVars, opVars>>

\* GET answered 429 once more, after the MaxThrottles answers the counters
\* and the log follow: sleep 45 s, then the same page again.  The loop has no
\* count of its 429 answers and no limit on them.
FetchThrottledOn ==
    /\ wPc = "fetch"
    /\ wThrottles = MaxThrottles
    /\ wPc' = "cooldown"
    /\ UNCHANGED <<wPage, wAttempts, wThrottles, wEmitted, wPosts, wExit, wLog, provRecords>>

\* the page loop against a provider that may answer 429 any number of times
NextWalkerOn ==
    \/ NextWalker
    \/ FetchThrottledOn /\ UNCHANGED <<gwVars, posted, hvVars, anVars, opVars>>

\* the gateway tables as created, the walker at its first page
InitWalking == InitGateway /\ posted = {} /\ InitWalker /\ HarvestOff /\ NotifierOff /\ OpsOff

SpecWalker == InitWalking /\ [][NextWalker]_vars

\* the script keeps running: a step of the loop that can be taken is taken
SpecWalkerOn == InitWalking /\ [][NextWalkerOn]_vars /\ WF_vars(NextWalkerOn)

(***************************************************************************)
(* The sink: receive_data of DB_API/DbApi.py                               *)
(***************************************************************************)
\* a request body that is no JSON
NotJson == [notjson |-> TRUE]

\* the sink taken for a store of distinct payloads: a payload it holds is
\* answered "saved" and not inserted again
receive_dataUnique(rows, body, db) ==
    IF body = NotJson \/ db # "up"
    THEN [rows |-> rows, status |-> 500, answer |-> "error"]
    ELSE [rows |-> IF \E r \in rows : r.raw_data = body THEN rows
                   ELSE rows \cup {[id |-> Cardinality(rows) + 1, raw_data |-> body]},
          status |-> 200, answer |-> "saved"]

\* POST /ingest.  No header is read and no field of the body is looked at.
\* request.json() raises on a body that is no JSON; get_db_connection returns
\* None when the database is "down" and conn.cursor() raises; cur.execute or
\* conn.commit raises when the "insert_fails"; each ends in HTTPException(500)
\* with nothing committed.  Otherwise INSERT INTO london_raw_data (raw_data)
\* adds one row (id is SERIAL) and the answer is {"status": "saved"}.
receive_data(rows, body, db) ==
    IF body = NotJson \/ db # "up"
    THEN [rows |-> rows, status |-> 500, answer |-> "error"]
    ELSE [rows |-> rows \cup {[id |-> Cardinality(rows) + 1, raw_data |-> body]},
          status |-> 200, answer |-> "saved"]

MaxRawRows == 4     \* rows of london_raw_data followed

DbStates == {"up", "down", "insert_fails"}

\* bodies sent to the sink: two payloads of a harvester, a JSON document
\* that is no measurement, and a body that is no JSON
SinkBodies ==
    {[source |-> "waqi_realtime", station_uid |-> 1, parameter |-> "pm25", value |-> "12"],
     [source |-> "waqi_realtime", station_uid |-> 1, parameter |-> "no2", value |-> "30"],
     [anything |-> 1],
     NotJson}

\* one request to /ingest
Ingest(body, db) ==
    /\ Cardinality(raw) < MaxRawRows
    /\ LET r == receive_data(raw, body, db) IN
       /\ raw' = r.rows
       /\ sLast' = [body |-> body, db |-> db, status |-> r.status, answer |-> r.answer]
    /\ UNCHANGED <<hPc, hPol, hLocations, hLoc, hSensor, hYear, hRun, hPrinted, hFaults,
                   hPosts, provWorld, hCalls>>

NextSink ==
    \E body \in SinkBodies, db \in DbStates :
        Ingest(body, db) /\ UNCHANGED <<gwVars, posted, wkVars, anVars, sgVars, lvVars, dbVars>>

\* the sink started (startup_db_check has created the table), no request yet
InitSink == InitGateway /\ posted = {} /\ WalkerOff /\ HarvestOff /\ NotifierOff /\ OpsOff

SpecSink == InitSink /\ [][NextSink]_vars

(***************************************************************************)
(* fetch_and_load_history: the sweep over pollutants, locations and years  *)
(***************************************************************************)
POLLUTANT_IDS ==
    <<[name |-> "pm25", id |-> 2], [name |-> "pm10", id |-> 1],
      [name |-> "no2", id |-> 5], [name |-> "o3", id |-> 3],
      [name |-> "co", id |-> 4], [name |-> "so2", id |-> 6]>>

TARGET_YEARS == <<2024, 2025>>

MaxFaults == 2  \* failures of a collaborator (provider, sink) followed in a run
MaxRuns == 2    \* runs of the script followed

\* str(v)
str(v) == <<"str", v>>

\* a location and a sensor as the provider describes them
Loc(id) ==
    [id |-> id, name |-> <<"station", id>>,
     coordinates |-> [latitude |-> 5150, longitude |-> -12]]

Sensor(id, parameter_id) == [id |-> id, parameter |-> [id |-> parameter_id]]

\* measurement k of a sensor in the year of index y
Measurement(y, k) ==
    [period |-> [datetimeFrom |-> [utc |-> <<TARGET_YEARS[y], k>>]],
     value |-> k, unit |-> "ug/m3"]

NoLocations == [i \in 1..Len(POLLUTANT_IDS) |-> <<>>]

\* one location for pm25, one sensor, a history of a full page and one
\* record in the first year
EndToEndWorld ==
    [configured |-> TRUE,
     locations |-> [NoLocations EXCEPT ![1] = <<Loc(1)>>],
     sensors |-> (1 :> <<Sensor(11, 2)>>),
     history |-> (<<11, 1>> :> PageLimit + 1)]

\* location 2 has no pm25 sensor; location 1 has the sensors sl
MixedWorld(sl) ==
    [configured |-> TRUE,
     locations |-> [NoLocations EXCEPT ![1] = <<Loc(2), Loc(1)>>, ![2] = <<Loc(1)>>],
     sensors |-> (1 :> sl) @@ (2 :> <<Sensor(20, 5)>>),
     history |-> (<<11, 1>> :> 1) @@ (<<12, 1>> :> PageLimit) @@ (<<12, 2>> :> 1)
                 @@ (<<10, 2>> :> 1)]

Worlds ==
    {EndToEndWorld, [EndToEndWorld EXCEPT !.configured = FALSE]}
    \cup {MixedWorld(sl) : sl \in {<<Sensor(10, 1), Sensor(11, 2), Sensor(12, 2)>>,
                                   <<Sensor(12, 2), Sensor(11, 2), Sensor(10, 1)>>,
                                   <<Sensor(10, 1)>>}}

\* the number of measurements the provider holds for a sensor and a year
History(w, sensor, y) ==
    IF <<sensor, y>> \in DOMAIN w.history THEN w.history[<<sensor, y>>] ELSE 0

\* the last sensor of the wanted parameter (the filter loop without its break)
LastSensor(sensors, p_id) ==
    LET hits == {i \in 1..Len(sensors) : sensors[i].parameter.id = p_id} IN
    IF hits = {} THEN [id |-> 0]
    ELSE sensors[CHOOSE i \in hits : \A j \in hits : j <= i]

\* for s in sensors: if s.parameter.id == p_id: target_sensor = s; break
\* ([id |-> 0] stands for None)
target_sensor(sensors, p_id) ==
    LET hits == {i \in 1..Len(sensors) : sensors[i].parameter.id = p_id} IN
    IF hits = {} THEN [id |-> 0]
    ELSE sensors[CHOOSE i \in hits : \A j \in hits : i <= j]

\* the payload built from measurement m of the walked sensor
Payload(loc, m) ==
    [source |-> "openaq_v3_history", station_uid |-> hSensor,
     station_name |-> loc.name, lat |-> loc.coordinates.latitude,
     lon |-> loc.coordinates.longitude, date |-> m.period.datetimeFrom.utc,
     parameter |-> POLLUTANT_IDS[hPol].name, value |-> str(m.value),
     unit |-> m.unit, full_json |-> m]

\* the payloads of the page just fetched, in the order of the page
PagePayloads ==
    [j \in 1..PageSize(provRecords, wPage) |->
        Payload(hLocations[hLoc], Measurement(hYear, (wPage - 1) * PageLimit + j))]

\* What becomes of one requests.post(GATEKEEPER_URL, json=payload, timeout=0.2):
\*   "saved"     answered 200 in time, the row is inserted;
\*   "error500"  answered 500 in time, no row;
\*   "unsent"    the post raises (no connection), no row;
\*   "timeout"   the post raises after 0.2 s, the sink inserts the row later.
PostOutcomes == {"saved", "error500", "unsent", "timeout"}

RECURSIVE PostAll(_, _, _)
\* the sink's rows after the posts of payloads ps with outcomes outs
PostAll(rows, ps, outs) ==
    IF ps = <<>> THEN rows
    ELSE PostAll(IF Head(outs) \in {"saved", "timeout"}
                 THEN receive_data(rows, Head(ps), "up").rows
                 ELSE IF Head(outs) = "error500"
                 THEN receive_data(rows, Head(ps), "down").rows
                 ELSE rows,
                 Tail(ps), Tail(outs))

Failures(outs) == Cardinality({j \in 1..Len(outs) : outs[j] # "saved"})

\* the model follows MaxFaults failures per run history
PageOutcomes(k) ==
    {outs \in [1..k -> PostOutcomes] : hFaults + Failures(outs) <= MaxFaults}

\* the walker's variables outside the page loop
WalkerRest ==
    /\ wPc' = "off" /\ wPage' = 0 /\ wAttempts' = 0 /\ wEmitted' = <<>>
    /\ wPosts' = 0 /\ wExit' = "none" /\ provRecords' = 0
    /\ UNCHANGED <<wThrottles, wLog>>

\* for year in TARGET_YEARS: page = 1
WalkerStart(sensor, y) ==
    /\ wPc' = "fetch" /\ wPage' = 1 /\ wAttempts' = 0 /\ wEmitted' = <<>>
    /\ wPosts' = 0 /\ wExit' = "none"
    /\ provRecords' = History(provWorld, sensor, y)
    /\ UNCHANGED <<wThrottles, wLog>>

\* one GET of /v3/locations for the pollutant of the loop, and its answer
LocationsCall(answer) ==
    [call |-> "locations", pol |-> hPol, loc |-> 0, answer |-> answer]

\* one GET of /v3/locations/{loc_id}/sensors, and its answer
SensorsCall(answer) ==
    [call |-> "sensors", pol |-> hPol, loc |-> hLocations[hLoc].id, answer |-> answer]

\* the head of the pollutant loop: the next pollutant, or the end of the sweep
NextPollutant(printed) ==
    /\ hLocations' = <<>> /\ hLoc' = 0 /\ hSensor' = 0 /\ hYear' = 0
    /\ IF hPol < Len(POLLUTANT_IDS)
       THEN /\ hPc' = "locations"
            /\ hPol' = hPol + 1
            /\ hPrinted' = Append(printed, "Searching for locations")
       ELSE /\ hPc' = "end"
            /\ hPol' = hPol
            /\ hPrinted' = Append(printed, "HISTORICAL SWEEP COMPLETE")

\* the head of the location loop: the next location, or the next pollutant
NextLocation(printed) ==
    IF hLoc < Len(hLocations)
    THEN /\ hPc' = "sensors"
         /\ hLoc' = hLoc + 1
         /\ hSensor' = 0 /\ hYear' = 0
         /\ hPrinted' = printed
         /\ UNCHANGED <<hPol, hLocations>>
    ELSE NextPollutant(printed)

\* the function is entered: get_headers, the check of the configuration, and
\* the first pollutant
Enter ==
    /\ IF provWorld.configured
       THEN /\ hPc' = "locations"
            /\ hPol' = 1
            /\ hPrinted' = hPrinted \o <<"Starting mass extraction", "Searching for locations">>
       ELSE /\ hPc' = "end"
            /\ hPol' = 0
            /\ hPrinted' = hPrinted \o <<"Starting mass extraction",
                                         "ERROR: Check your configuration">>
    /\ hLocations' = <<>> /\ hLoc' = 0 /\ hSensor' = 0 /\ hYear' = 0
    /\ hRun' = hRun + 1
    /\ UNCHANGED <<hFaults, hPosts, raw, provWorld, hCalls>>
    /\ UNCHANGED wkVars

\* the script is started
SweepStart == hPc = "off" /\ Enter

\* the script is started again after a run that ended
Rerun == hPc = "end" /\ hRun < MaxRuns /\ Enter

\* STEP A, GET /v3/locations answered 200: locations = results
StepA_Ok ==
    /\ hPc = "locations"
    /\ LET locs == provWorld.locations[hPol]
           printed == Append(hPrinted, "Found locations")
       IN  IF locs = <<>>
           THEN NextPollutant(printed)
           ELSE /\ hPc' = "sensors"
                /\ hLocations' = locs
                /\ hLoc' = 1
                /\ hSensor' = 0 /\ hYear' = 0
                /\ hPrinted' = printed
                /\ UNCHANGED hPol
    /\ UNCHANGED <<hRun, hFaults, hPosts, raw, provWorld>>
    /\ UNCHANGED wkVars
    /\ hCalls' = Append(hCalls, LocationsCall("ok"))

\* STEP A, a status other than 200: print, continue
StepA_BadStatus ==
    /\ hPc = "locations"
    /\ hFaults < MaxFaults
    /\ hFaults' = hFaults + 1
    /\ NextPollutant(Append(hPrinted, "API Error searching locations"))
    /\ UNCHANGED <<hRun, hPosts, raw, provWorld>>
    /\ UNCHANGED wkVars
    /\ hCalls' = Append(hCalls, LocationsCall("status"))

\* STEP A, requests.get or res.json() raises: print, continue
StepA_Raised ==
    /\ hPc = "locations"
    /\ hFaults < MaxFaults
    /\ hFaults' = hFaults + 1
    /\ NextPollutant(Append(hPrinted, "Connection error"))
    /\ UNCHANGED <<hRun, hPosts, raw, provWorld>>
    /\ UNCHANGED wkVars
    /\ hCalls' = Append(hCalls, LocationsCall("exception"))

\* STEP B, GET /v3/locations/{id}/sensors answered with the sensors of the
\* location: no sensor of the pollutant, continue; otherwise the year loop
\* begins with the first such sensor
StepB_Answered ==
    /\ hPc = "sensors"
    /\ LET t == target_sensor(provWorld.sensors[hLocations[hLoc].id], POLLUTANT_IDS[hPol].id)
       IN  IF t.id = 0
           THEN /\ NextLocation(hPrinted)
                /\ UNCHANGED wkVars
           ELSE /\ hPc' = "walk"
                /\ hSensor' = t.id
                /\ hYear' = 1
                /\ hPrinted' = Append(hPrinted, "Downloading history")
                /\ UNCHANGED <<hPol, hLocations, hLoc>>
                /\ WalkerStart(t.id, 1)
    /\ UNCHANGED <<hRun, hFaults, hPosts, raw, provWorld>>
    /\ hCalls' = Append(hCalls, SensorsCall("ok"))

\* break in place of continue: the other locations of the pollutant are left
StepB_RaisedBreak ==
    /\ hPc = "sensors"
    /\ hFaults < MaxFaults
    /\ hFaults' = hFaults + 1
    /\ NextPollutant(Append(hPrinted, "Error getting sensors"))
    /\ UNCHANGED <<hRun, hPosts, raw, provWorld>>
    /\ UNCHANGED wkVars
    /\ hCalls' = Append(hCalls, SensorsCall("exception"))

\* STEP B, requests.get or s_res.json() raises: print, continue
StepB_Raised ==
    /\ hPc = "sensors"
    /\ hFaults < MaxFaults
    /\ hFaults' = hFaults + 1
    /\ NextLocation(Append(hPrinted, "Error getting sensors"))
    /\ UNCHANGED <<hRun, hPosts, raw, provWorld>>
    /\ UNCHANGED wkVars
    /\ hCalls' = Append(hCalls, SensorsCall("exception"))

\* STEP B, the answer is a JSON object without "results" (the status is not
\* looked at): sensors = [], no target sensor, continue
StepB_NoResults ==
    /\ hPc = "sensors"
    /\ hFaults < MaxFaults
    /\ hFaults' = hFaults + 1
    /\ NextLocation(hPrinted)
    /\ UNCHANGED <<hRun, hPosts, raw, provWorld>>
    /\ UNCHANGED wkVars
    /\ hCalls' = Append(hCalls, SensorsCall("noresults"))

\* STEP C, the page loop of a year was left: the next year, or the next location
StepC_NextYear ==
    /\ hPc = "walk"
    /\ wPc = "done"
    /\ IF hYear < Len(TARGET_YEARS)
       THEN /\ hYear' = hYear + 1
            /\ WalkerStart(hSensor, hYear + 1)
            /\ UNCHANGED <<hPc, hPol, hLocations, hLoc, hSensor, hPrinted>>
       ELSE /\ NextLocation(hPrinted)
            /\ WalkerRest
    /\ UNCHANGED <<hRun, hFaults, hPosts, raw, provWorld, hCalls>>

\* a page answered 200: each of its records is posted to the sink
WalkOk ==
    /\ hPc = "walk"
    /\ FetchOk
    /\ \E outs \in PageOutcomes(PageSize(provRecords, wPage)) :
          /\ raw' = PostAll(raw, PagePayloads, outs)
          /\ hPosts' = hPosts \o [j \in 1..Len(outs) |->
                                    [run |-> hRun, data |-> PagePayloads[j],
                                     outcome |-> outs[j]]]
          /\ hFaults' = hFaults + Failures(outs)
    /\ UNCHANGED <<hPc, hPol, hLocations, hLoc, hSensor, hYear, hRun, hPrinted, provWorld, hCalls>>

WalkThrottled ==
    /\ hPc = "walk"
    /\ hFaults < MaxFaults
    /\ FetchThrottled
    /\ hFaults' = hFaults + 1
    /\ hPrinted' = Append(hPrinted, "API Paused 45s (Rate Limit)")
    /\ UNCHANGED <<hPc, hPol, hLocations, hLoc, hSensor, hYear, hRun, hPosts, raw, provWorld, hCalls>>

WalkBadStatus ==
    /\ hPc = "walk"
    /\ hFaults < MaxFaults
    /\ FetchBadStatus
    /\ hFaults' = hFaults + 1
    /\ UNCHANGED <<hPc, hPol, hLocations, hLoc, hSensor, hYear, hRun, hPrinted, hPosts,
                   raw, provWorld, hCalls>>

WalkRaised ==
    /\ hPc = "walk"
    /\ hFaults < MaxFaults
    /\ FetchRaised
    /\ hFaults' = hFaults + 1
    /\ hPrinted' = Append(hPrinted, "Error reading measurements")
    /\ UNCHANGED <<hPc, hPol, hLocations, hLoc, hSensor, hYear, hRun, hPosts, raw, provWorld, hCalls>>

WalkNoResults ==
    /\ hPc = "walk"
    /\ hFaults < MaxFaults
    /\ FetchNoResults
    /\ hFaults' = hFaults + 1
    /\ UNCHANGED <<hPc, hPol, hLocations, hLoc, hSensor, hYear, hRun, hPrinted, hPosts,
                   raw, provWorld, hCalls>>

WalkWake == hPc = "walk" /\ Wake /\ UNCHANGED hvVars

\* one run of the script
NextHarvest ==
    \/ SweepStart /\ UNCHANGED <<gwVars, posted, anVars, opVars>>
    \/ StepA_Ok /\ UNCHANGED <<gwVars, posted, anVars, opVars>>
    \/ StepA_BadStatus /\ UNCHANGED <<gwVars, posted, anVars, opVars>>
    \/ StepA_Raised /\ UNCHANGED <<gwVars, posted, anVars, opVars>>
    \/ StepB_Answered /\ UNCHANGED <<gwVars, posted, anVars, opVars>>
    \/ StepB_Raised /\ UNCHANGED <<gwVars, posted, anVars, opVars>>
    \/ StepB_NoResults /\ UNCHANGED <<gwVars, posted, anVars, opVars>>
    \/ StepC_NextYear /\ UNCHANGED <<gwVars, posted, anVars, opVars>>
    \/ WalkOk /\ UNCHANGED <<gwVars, posted, anVars, opVars>>
    \/ WalkThrottled /\ UNCHANGED <<gwVars, posted, anVars, opVars>>
    \/ WalkBadStatus /\ UNCHANGED <<gwVars, posted, anVars, opVars>>
    \/ WalkRaised /\ UNCHANGED <<gwVars, posted, anVars, opVars>>
    \/ WalkNoResults /\ UNCHANGED <<gwVars, posted, anVars, opVars>>
    \/ WalkWake /\ UNCHANGED <<gwVars, posted, anVars, opVars>>

\* the script not yet started, against one of the providers of Worlds
InitHarvest ==
    /\ InitGateway /\ posted = {} /\ WalkerOff /\ NotifierOff /\ OpsOff
    /\ hPc = "off" /\ hPol = 0 /\ hLocations = <<>> /\ hLoc = 0 /\ hSensor = 0
    /\ hYear = 0 /\ hRun = 0 /\ hPrinted = <<>> /\ hFaults = 0 /\ hPosts = <<>>
    /\ raw = {} /\ hCalls = <<>>
    /\ provWorld \in Worlds

SpecHarvest == InitHarvest /\ [][NextHarvest]_vars

\* the script run, and run again, against the same provider
NextRerun ==
    \/ NextHarvest
    \/ Rerun /\ UNCHANGED <<gwVars, posted, anVars, opVars>>

InitRerun ==
    /\ InitGateway /\ posted = {} /\ WalkerOff /\ NotifierOff /\ OpsOff
    /\ hPc = "off" /\ hPol = 0 /\ hLocations = <<>> /\ hLoc = 0 /\ hSensor = 0
    /\ hYear = 0 /\ hRun = 0 /\ hPrinted = <<>> /\ hFaults = 0 /\ hPosts = <<>>
    /\ raw = {} /\ hCalls = <<>>
    /\ provWorld = EndToEndWorld

SpecRerun == InitRerun /\ [][NextRerun]_vars

(***************************************************************************)
(* An operator's stop.  The script has no cancellation flag, event or      *)
(* deadline; what an operator can raise is the interrupt of the process,   *)
(* which Python delivers as KeyboardInterrupt at the statement that runs.  *)
(* KeyboardInterrupt is no Exception: "except Exception" lets it pass and  *)
(* a bare "except:" catches it.  One interrupt is followed.                *)
(***************************************************************************)
\* the interrupt arrives in time.sleep(45) or time.sleep(0.1), inside
\* "try ... except Exception": it leaves the function and the script ends
InterruptAsleep ==
    /\ ~hSignal
    /\ hPc = "walk"
    /\ wPc \in {"cooldown", "pace"}
    /\ hSignal' = TRUE
    /\ hPc' = "interrupted"
    /\ UNCHANGED <<hPol, hLocations, hLoc, hSensor, hYear, hRun, hPrinted, hFaults,
                   hPosts, raw, provWorld, hCalls>>
    /\ UNCHANGED wkVars

\* the interrupt arrives in requests.get of STEP A or of a page, inside
\* "try ... except Exception": it leaves the function and the script ends
InterruptGet ==
    /\ ~hSignal
    /\ hPc = "locations" \/ (hPc = "walk" /\ wPc = "fetch")
    /\ hSignal' = TRUE
    /\ hPc' = "interrupted"
    /\ UNCHANGED <<hPol, hLocations, hLoc, hSensor, hYear, hRun, hPrinted, hFaults,
                   hPosts, raw, provWorld, hCalls>>
    /\ UNCHANGED wkVars

\* the interrupt arrives in requests.get of STEP B, inside "try ... except:":
\* it is caught, the error is printed and the loop continues
InterruptSensors ==
    /\ ~hSignal
    /\ hPc = "sensors"
    /\ hSignal' = TRUE
    /\ NextLocation(Append(hPrinted, "Error getting sensors"))
    /\ UNCHANGED <<hRun, hFaults, hPosts, raw, provWorld>>
    /\ UNCHANGED wkVars
    /\ hCalls' = Append(hCalls, SensorsCall("interrupt"))

\* the interrupt arrives in a requests.post of the page just fetched, inside
\* "try ... except: pass": that post is cut short (the sink may or may not
\* have got the record) and the loop goes on with the next record
InterruptPost ==
    /\ ~hSignal
    /\ hPc = "walk"
    /\ PageSize(provRecords, wPage) > 0
    /\ FetchOk
    /\ hSignal' = TRUE
    /\ \E outs \in PageOutcomes(PageSize(provRecords, wPage)) :
          /\ \E j \in 1..Len(outs) : outs[j] \in {"unsent", "timeout"}
          /\ raw' = PostAll(raw, PagePayloads, outs)
          /\ hPosts' = hPosts \o [j \in 1..Len(outs) |->
                                    [run |-> hRun, data |-> PagePayloads[j],
                                     outcome |-> outs[j]]]
          /\ hFaults' = hFaults + Failures(outs)
    /\ UNCHANGED <<hPc, hPol, hLocations, hLoc, hSensor, hYear, hRun, hPrinted, provWorld, hCalls>>

\* one run of the script, with an operator who may interrupt it
NextInterrupt ==
    \/ NextHarvest
    \/ InterruptAsleep /\ UNCHANGED <<gwVars, posted, anVars, lvVars, skVars, dbVars>>
    \/ InterruptGet /\ UNCHANGED <<gwVars, posted, anVars, lvVars, skVars, dbVars>>
    \/ InterruptSensors /\ UNCHANGED <<gwVars, posted, anVars, lvVars, skVars, dbVars>>
    \/ InterruptPost /\ UNCHANGED <<gwVars, posted, anVars, lvVars, skVars, dbVars>>

SpecInterrupt == InitHarvest /\ [][NextInterrupt]_vars

(***************************************************************************)
(* API_Service/api_manager.py: run_ingestion_cycle                         *)
(***************************************************************************)
\* None
None == [none |-> TRUE]

TARGET_POLLUTANTS == <<"pm25", "pm10", "no2", "o3", "so2", "co">>

\* an entry of the map answer
Station(uid) == [uid |-> uid]

\* the feed of a station: station 1 reports pm25 and no2, any other o3
Feed(uid) ==
    [status |-> "ok",
     data |-> [idx |-> uid,
               city |-> [name |-> <<"city", uid>>, geo |-> <<5150, -12>>],
               time |-> [s |-> T1],
               iaqi |-> IF uid = 1 THEN ("pm25" :> [v |-> 12]) @@ ("no2" :> [v |-> 30])
                        ELSE ("o3" :> [v |-> 7])]]

\* what the map call may answer as "data"
StationLists == {<<>>, <<Station(1)>>, <<Station(1), Station(2)>>}

\* what fetch_station_details(uid) returns: the feed, an answer whose status
\* is not "ok", or None (the GET raised, or its 10 s timeout passed)
FeedAnswers(uid) ==
    IF lUpstream = "silent" THEN {None}
    ELSE {Feed(uid), [status |-> "error", data |-> [message |-> "Unknown station"]], None}

\* the payload of one pollutant of a feed
LivePayload(data, pollutant) ==
    [source |-> "waqi_realtime", station_uid |-> data.idx,
     station_name |-> data.city.name, lat |-> data.city.geo[1],
     lon |-> data.city.geo[2], date |-> data.time.s, parameter |-> pollutant,
     value |-> str(data.iaqi[pollutant].v), unit |-> "aqi",
     full_json |-> data.iaqi[pollutant]]

\* for pollutant in TARGET_POLLUTANTS: if pollutant in iaqi: payload
LivePayloads(full_res) ==
    IF full_res = None \/ full_res.status # "ok" THEN <<>>
    ELSE LET measured == SelectSeq(TARGET_POLLUTANTS,
                                   LAMBDA q : q \in DOMAIN full_res.data.iaqi)
         IN  [j \in 1..Len(measured) |-> LivePayload(full_res.data, measured[j])]

\* the cycle is entered and requests.get(MAP_URL) is called
LiveStart ==
    /\ lPc = "idle"
    /\ lPc' = "map"
    /\ lPrinted' = Append(lPrinted, <<"Collecting data to send to the API">>)
    /\ UNCHANGED <<lStations, lIdx, lSent, lPosts, lUpstream>>
    /\ UNCHANGED hvVars

\* the map call answers: stations = map_res.get("data", []); sent_count = 0
LiveMapAnswered ==
    /\ lPc = "map"
    /\ lUpstream = "up"
    /\ \E stations \in StationLists :
          /\ lStations' = stations
          /\ IF stations = <<>>
             THEN /\ lPc' = "end"
                  /\ lIdx' = 0
                  /\ lPrinted' = Append(lPrinted, <<"Cycle End. Sent", 0>>)
             ELSE /\ lPc' = "feed"
                  /\ lIdx' = 1
                  /\ UNCHANGED lPrinted
    /\ lSent' = 0
    /\ UNCHANGED <<lPosts, lUpstream>>
    /\ UNCHANGED hvVars

\* the map call raises, or its body is no JSON: print, return
LiveMapRaised ==
    /\ lPc = "map"
    /\ lUpstream = "up"
    /\ lPc' = "end"
    /\ lPrinted' = Append(lPrinted, <<"ERROR">>)
    /\ UNCHANGED <<lStations, lIdx, lSent, lPosts, lUpstream>>
    /\ UNCHANGED hvVars

\* Against a provider that never answers the map call nothing follows:
\* requests.get(MAP_URL) is called without a timeout and does not return.

\* one round of the station loop: the feed is fetched and each pollutant it
\* reports is posted to the sink; a 200 answer is counted, a post that raises
\* is printed
LiveFeed ==
    /\ lPc = "feed"
    /\ \E full_res \in FeedAnswers(lStations[lIdx].uid) :
          LET ps == LivePayloads(full_res) IN
          \E outs \in [1..Len(ps) -> PostOutcomes] :
             LET sent == lSent + Cardinality({j \in 1..Len(ps) : outs[j] = "saved"})
                 raised == SelectSeq(ps, LAMBDA q :
                              \E j \in 1..Len(ps) :
                                 ps[j] = q /\ outs[j] \in {"unsent", "timeout"})
                 printed == lPrinted \o [j \in 1..Len(raised) |->
                                           <<"Connection error sending", raised[j].parameter>>]
             IN  /\ raw' = PostAll(raw, ps, outs)
                 /\ lPosts' = lPosts \o [j \in 1..Len(ps) |->
                                           [data |-> ps[j], outcome |-> outs[j]]]
                 /\ lSent' = sent
                 /\ IF lIdx < Len(lStations)
                    THEN /\ lIdx' = lIdx + 1
                         /\ lPrinted' = printed
                         /\ UNCHANGED lPc
                    ELSE /\ lPc' = "end"
                         /\ lPrinted' = Append(printed, <<"Cycle End. Sent", sent>>)
                         /\ UNCHANGED lIdx
    /\ UNCHANGED <<lStations, lUpstream>>
    /\ UNCHANGED <<hPc, hPol, hLocations, hLoc, hSensor, hYear, hRun, hPrinted, hFaults,
                   hPosts, provWorld, hCalls>>

\* the provider stops answering
LiveOutage ==
    /\ lPc # "off"
    /\ lUpstream = "up"
    /\ lUpstream' = "silent"
    /\ UNCHANGED <<lPc, lStations, lIdx, lSent, lPrinted, lPosts>>
    /\ UNCHANGED hvVars

NextLive ==
    \/ LiveOutage /\ UNCHANGED <<gwVars, posted, wkVars, anVars, sgVars, skVars, dbVars>>
    \/ LiveStart /\ UNCHANGED <<gwVars, posted, wkVars, anVars, sgVars, skVars, dbVars>>
    \/ LiveMapAnswered /\ UNCHANGED <<gwVars, posted, wkVars, anVars, sgVars, skVars, dbVars>>
    \/ LiveMapRaised /\ UNCHANGED <<gwVars, posted, wkVars, anVars, sgVars, skVars, dbVars>>
    \/ LiveFeed /\ UNCHANGED <<gwVars, posted, wkVars, anVars, sgVars, skVars, dbVars>>

\* the script started, before its first cycle
InitLive ==
    /\ InitGateway /\ posted = {} /\ WalkerOff /\ HarvestOff /\ NotifierOff
    /\ SignalOff /\ SinkOff /\ WaitOff
    /\ lPc = "idle" /\ lStations = <<>> /\ lIdx = 0 /\ lSent = 0
    /\ lPrinted = <<>> /\ lPosts = <<>>
    /\ lUpstream = "up"

\* a call that returns lets the cycle go on
SpecLive == InitLive /\ [][NextLive]_vars /\ WF_vars(NextLive)

(***************************************************************************)
(* AlertNotifier/alert_notifier.py: check_and_notify_alerts                *)
(***************************************************************************)
RETENTION == 4  \* timedelta(hours=2), in units of 30 minutes
QUERY_WINDOW == 1   \* INTERVAL '30 minutes'
MAX_CRITICAL == 5   \* critical_alerts[:5]
MAX_OTHER == 3      \* sensitive_alerts[:3], relative_alerts[:3]

MaxTime == 5    \* the clock is followed up to this time
MaxCycles == 3  \* cycles that find alerts followed

\* a row of marts__alerts as get_active_alerts returns it
Alert(station, parameter, sensor_date, absolute, sensitive, relative) ==
    [station_name |-> station, parameter |-> parameter, sensor_date |-> sensor_date,
     absolute_alert |-> absolute, sensitive_alert |-> sensitive,
     relative_alert |-> relative]

\* f"{station_name}_{parameter}_{sensor_date}": a pollutant code and a
\* timestamp hold no "_", so the text determines the three parts
alert_key(a) == <<a.station_name, a.parameter, a.sensor_date>>

\* last_alerts_sent = {k: v for k, v in last_alerts_sent.items() if v > cutoff_time}
Kept(sent, t) ==
    [k \in {x \in DOMAIN sent : sent[x] > t - RETENTION} |-> sent[k]]

\* the loop that marks every alert it meets, also one already marked
FormatLoopRemarking(alerts, sent, t) ==
    [sent |-> [k \in DOMAIN sent \cup {alert_key(alerts[i]) : i \in 1..Len(alerts)} |->
                  IF \E i \in 1..Len(alerts) : alert_key(alerts[i]) = k THEN t ELSE sent[k]],
     fresh |-> alerts]

RECURSIVE FormatLoop(_, _, _)
\* the loop of format_alert_message over the alerts: an alert whose key is
\* in last_alerts_sent is passed over, any other is marked with
\* datetime.now(); fresh are the alerts that were marked, in order
FormatLoop(alerts, sent, t) ==
    IF alerts = <<>> THEN [sent |-> sent, fresh |-> <<>>]
    ELSE IF alert_key(Head(alerts)) \in DOMAIN sent
    THEN FormatLoop(Tail(alerts), sent, t)
    ELSE LET r == FormatLoop(Tail(alerts), (alert_key(Head(alerts)) :> t) @@ sent, t)
         IN  [sent |-> r.sent, fresh |-> <<Head(alerts)>> \o r.fresh]

\* s[:n]
Take(s, n) == SubSeq(s, 1, IF Len(s) < n THEN Len(s) ELSE n)

\* format_alert_message(alerts) at time t: the dict afterwards and the
\* message (None when nothing is new); a message lists the first
\* MAX_CRITICAL critical and the first MAX_OTHER sensitive and relative alerts
format_alert_message(alerts, sent, t) ==
    LET r == FormatLoop(alerts, sent, t)
        critical_alerts == SelectSeq(r.fresh, LAMBDA a : a.absolute_alert)
        sensitive_alerts ==
            SelectSeq(r.fresh, LAMBDA a : ~a.absolute_alert /\ a.sensitive_alert)
        relative_alerts ==
            SelectSeq(r.fresh, LAMBDA a : ~a.absolute_alert /\ ~a.sensitive_alert
                                          /\ a.relative_alert)
    IN  [sent |-> r.sent,
         message |->
            IF critical_alerts = <<>> /\ sensitive_alerts = <<>> /\ relative_alerts = <<>>
            THEN None
            ELSE [critical |-> Take(critical_alerts, MAX_CRITICAL),
                  sensitive |-> Take(sensitive_alerts, MAX_OTHER),
                  relative |-> Take(relative_alerts, MAX_OTHER)]]

\* One cycle.  alerts: what get_active_alerts returns ([] also when the
\* database fails); delivered: what send_telegram_notification returns.
check_and_notify_alerts(alerts, delivered) ==
    /\ Len(notified) < MaxCycles
    /\ LET kept == Kept(last_alerts_sent, now) IN
       IF alerts = <<>>
       THEN /\ last_alerts_sent' = kept
            /\ UNCHANGED notified
       ELSE LET f == format_alert_message(alerts, kept, now) IN
            /\ last_alerts_sent' = f.sent
            /\ notified' = Append(notified,
                                  [at |-> now, alerts |-> alerts, message |-> f.message,
                                   delivered |-> f.message # None /\ delivered])
    /\ UNCHANGED now

\* time passes
Tick ==
    /\ now < MaxTime
    /\ now' = now + 1
    /\ UNCHANGED <<last_alerts_sent, notified>>

\* rows of marts__alerts at time t: one detected at each time up to now, and
\* one dated in the future
AlertRows(t) ==
    {Alert("A", "pm25", d, TRUE, FALSE, FALSE) : d \in 0..t}
    \cup {Alert("B", "no2", MaxTime + 1, FALSE, TRUE, FALSE)}

\* the query without its window on sensor_date
AlertPoolUnwindowed(t) ==
    {a \in AlertRows(t) :
        a.absolute_alert \/ a.sensitive_alert \/ a.relative_alert}

\* WHERE sensor_date > NOW() - INTERVAL '30 minutes' AND (a flag is TRUE)
AlertPool(t) ==
    {a \in AlertRows(t) :
        /\ a.sensor_date > t - QUERY_WINDOW
        /\ (a.absolute_alert \/ a.sensitive_alert \/ a.relative_alert)}

\* nothing, one row, or two rows of which the second may repeat the first
Batches(t) ==
    {<<>>} \cup {<<a>> : a \in AlertPool(t)}
    \cup {<<a, b>> : a \in AlertPool(t), b \in {x \in AlertPool(t) : x.station_name = "B"}}

NextNotifier ==
    \/ Tick /\ UNCHANGED <<gwVars, posted, wkVars, hvVars, opVars>>
    \/ \E alerts \in Batches(now), delivered \in BOOLEAN :
          check_and_notify_alerts(alerts, delivered)
          /\ UNCHANGED <<gwVars, posted, wkVars, hvVars, opVars>>

\* the notifier started, nothing notified yet
InitNotifier == InitGateway /\ posted = {} /\ WalkerOff /\ HarvestOff /\ NotifierOff /\ OpsOff

SpecNotifier == InitNotifier /\ [][NextNotifier]_vars

MaxCriticals == 6   \* critical alerts in a batch handed to format_alert_message
MaxOthers == 4      \* sensitive, and relative, alerts in such a batch

StationNames == <<"S1", "S2", "S3", "S4", "S5", "S6", "S7", "S8">>

\* a batch of c critical, s sensitive and r relative alerts and z alerts
\* with no flag set, all detected at time 0
FormatBatch(c, s, r, z) ==
    [i \in 1..c |-> Alert(StationNames[i], "pm25", 0, TRUE, FALSE, FALSE)]
    \o [i \in 1..s |-> Alert(StationNames[i], "no2", 0, FALSE, TRUE, FALSE)]
    \o [i \in 1..r |-> Alert(StationNames[i], "o3", 0, FALSE, FALSE, TRUE)]
    \o [i \in 1..z |-> Alert(StationNames[i], "so2", 0, FALSE, FALSE, FALSE)]

FormatBatches ==
    {FormatBatch(c, s, r, z) :
        c \in 0..MaxCriticals, s \in 0..MaxOthers, r \in 0..MaxOthers, z \in 0..1}

\* the first cycle of the notifier, over one of the batches
FormatOnce ==
    /\ notified = <<>>
    /\ \E alerts \in FormatBatches : check_and_notify_alerts(alerts, TRUE)

NextFormat == FormatOnce /\ UNCHANGED <<gwVars, posted, wkVars, hvVars, opVars>>

SpecFormat == InitNotifier /\ [][NextFormat]_vars

(***************************************************************************)
(* wait_for_database of AlertNotifier/alert_notifier.py (the "notifier")   *)
(* and of mapa_calidad_aire/mapa_londres.py (the "dashboard")              *)
(***************************************************************************)
MaxRetries == 3     \* the largest max_retries followed (the default is 30)

\* What becomes of one psycopg2.connect:
\*   "connected"  the connection is made;
\*   "refused"    the attempt fails (OperationalError);
\*   "silent"     the server takes the connection and never answers: with
\*                connect_timeout=5 the attempt fails after 5 s, without a
\*                connect timeout it waits for as long as the server is silent.
ConnectOutcomes == {"connected", "refused", "silent"}

\* the for statement has a next value of attempt: psycopg2.connect is called
WaitConnect ==
    /\ dPc = "for"
    /\ dAttempt < dMax
    /\ dAttempt' = dAttempt + 1
    /\ dPc' = "connecting"
    /\ \E o \in ConnectOutcomes :
          /\ dPending' = o
          /\ dTries' = Append(dTries, o)
    /\ UNCHANGED <<dVersion, dMax, dResult>>

\* the for statement is exhausted: return False after the loop
WaitExhausted ==
    /\ dPc = "for"
    /\ dAttempt >= dMax
    /\ dPc' = "returned"
    /\ dResult' = "False"
    /\ UNCHANGED <<dVersion, dMax, dAttempt, dPending, dTries>>

\* the connection is made: conn.close(), print, return True
WaitConnected ==
    /\ dPc = "connecting"
    /\ dPending = "connected"
    /\ dPc' = "returned"
    /\ dResult' = "True"
    /\ dPending' = "none"
    /\ UNCHANGED <<dVersion, dMax, dAttempt, dTries>>

\* the notifier's except psycopg2.OperationalError: sleep before the next
\* attempt, or after the last one print and return False
WaitFailedNotifier ==
    /\ dVersion = "notifier"
    /\ dPc = "connecting"
    /\ dPending \in {"refused", "silent"}
    /\ dPending' = "none"
    /\ IF dAttempt < dMax
       THEN dPc' = "sleep" /\ UNCHANGED dResult
       ELSE dPc' = "returned" /\ dResult' = "False"
    /\ UNCHANGED <<dVersion, dMax, dAttempt, dTries>>

\* the dashboard's except Exception: print and sleep, after every failed
\* attempt.  Its psycopg2.connect has no connect_timeout: nothing follows an
\* attempt that the server leaves unanswered.
WaitFailedDashboard ==
    /\ dVersion = "dashboard"
    /\ dPc = "connecting"
    /\ dPending = "refused"
    /\ dPending' = "none"
    /\ dPc' = "sleep"
    /\ UNCHANGED <<dVersion, dMax, dAttempt, dTries, dResult>>

\* time.sleep(retry_interval) returns
WaitSlept ==
    /\ dPc = "sleep"
    /\ dPc' = "for"
    /\ UNCHANGED <<dVersion, dMax, dAttempt, dPending, dTries, dResult>>

NextWait ==
    \/ WaitConnect /\ UNCHANGED <<gwVars, posted, wkVars, hvVars, anVars, sgVars, lvVars, skVars>>
    \/ WaitExhausted /\ UNCHANGED <<gwVars, posted, wkVars, hvVars, anVars, sgVars, lvVars, skVars>>
    \/ WaitConnected /\ UNCHANGED <<gwVars, posted, wkVars, hvVars, anVars, sgVars, lvVars, skVars>>
    \/ WaitFailedNotifier /\ UNCHANGED <<gwVars, posted, wkVars, hvVars, anVars, sgVars, lvVars, skVars>>
    \/ WaitFailedDashboard /\ UNCHANGED <<gwVars, posted, wkVars, hvVars, anVars, sgVars, lvVars, skVars>>
    \/ WaitSlept /\ UNCHANGED <<gwVars, posted, wkVars, hvVars, anVars, sgVars, lvVars, skVars>>

\* wait_for_database(max_retries) is called in one of the two programs
InitWait ==
    /\ InitGateway /\ posted = {} /\ WalkerOff /\ HarvestOff /\ NotifierOff
    /\ SignalOff /\ LiveOff /\ SinkOff
    /\ dVersion \in {"notifier", "dashboard"}
    /\ dMax \in 0..MaxRetries
    /\ dPc = "for" /\ dAttempt = 0 /\ dPending = "none" /\ dTries = <<>>
    /\ dResult = "none"

\* a statement that can run does run
SpecWait == InitWait /\ [][NextWait]_vars /\ WF_vars(NextWait)

(***************************************************************************)
(* The whole                                                               *)
(***************************************************************************)
Init == InitWalking

Next == NextGateway \/ NextWalker \/ NextRerun

Spec == Init /\ [][Next]_vars

(***************************************************************************)
(* Properties of the gateway                                               *)
(***************************************************************************)
SameTriple(a, b) ==
    /\ a.station_uid = b.station_uid
    /\ a.sensor_date = b.sensor_date
    /\ a.parameter = b.parameter

Stored(rows, d) == \E r \in rows : SameTriple(r, d)

Rejected(call) == call.code \in {"Unauthorized", "ValidationError", "IntegrityError"}

AllIdle == \A c \in Clients : req[c].pc = "idle"

\* C1: a validated, authorized record whose triple is not stored is accepted
\* and adds exactly one row; the same record submitted again as the next call
\* is refused as a duplicate and leaves the rows as they are, so the two calls
\* together add exactly one row.
C1_IngestTwice ==
    [][\A c \in Clients :
          (req[c].pc = "endpoint" /\ req'[c].pc = "idle") =>
             /\ ~Stored(registros, req[c].dato) =>
                   /\ last'.code = "OK"
                   /\ Cardinality(registros') = Cardinality(registros) + 1
             /\ (last.code = "OK" /\ last.dato = req[c].dato) =>
                   /\ last'.code = "IntegrityError"
                   /\ registros' = registros]_vars

C1_Witness ==
    /\ last.code = "IntegrityError"
    /\ \E r \in registros : DatoOf(r) = last.dato

\* C2: no two stored rows have the same (station_uid, sensor_date, parameter),
\* whatever the interleaving of the requests in flight.
C2_UniqueTriple ==
    \A r1, r2 \in registros : SameTriple(r1, r2) => r1 = r2

C2_Witness ==
    /\ last.code = "OK"
    /\ \E c \in Clients :
          /\ req[c].pc = "endpoint"
          /\ SameTriple(req[c].dato, last.dato)
          /\ Stored(registros, req[c].dato)

InEnvelope(d) == 5128 <= d.lat /\ d.lat <= 5169 /\ -51 <= d.lon /\ d.lon <= 33

\* C3: a call whose record lies outside the envelope is rejected before the
\* endpoint function, whatever its other fields (a 422 names the coordinate),
\* and every stored row lies inside the envelope.
C3_Envelope ==
    /\ (last.code # "none" /\ ~InEnvelope(last.dato)) =>
          /\ Rejected(last)
          /\ last.code # "IntegrityError"
          /\ last.code = "ValidationError" =>
                \E i \in 1..Len(last.errors) : last.errors[i] \in {"lat", "lon"}
    /\ \A r \in registros : InEnvelope(r)

C3_Witness ==
    /\ last.code = "ValidationError"
    /\ last.key = "k1"
    /\ last.dato.lat = 5170
    /\ last.errors = <<"lat">>
    /\ registros # {}

\* C4: a call whose unit is neither "aqi" nor the micro-gram token is
\* rejected, and every stored row has one of the two units.
C4_Units ==
    /\ (last.code # "none" /\ last.dato.unit \notin {"aqi", "ug/m3"}) =>
          /\ Rejected(last)
          /\ last.code # "IntegrityError"
    /\ \A r \in registros : r.unit \in {"aqi", "ug/m3"}

C4_Witness ==
    /\ last.code = "ValidationError"
    /\ last.dato.unit = "ppm"
    /\ last.errors = <<"unit">>
    /\ \E r \in registros : r.unit = "ug/m3"

C6_Claim ==
    (last.code # "none"
     /\ (last.key = NoKey \/ ~ \E u \in usuarios : u.api_key = last.key)) =>
        /\ last.code = "Unauthorized"
        /\ last.errors = <<>>

\* the check the claim lists first among geographic envelope, unit
\* vocabulary, timestamp format
FirstFailingAsClaimed(d) ==
    IF ~validar_latitud_londres(d.lat) THEN "lat"
    ELSE IF ~validar_longitud_londres(d.lon) THEN "lon"
    ELSE IF ~validar_unidades(d.unit) THEN "unit"
    ELSE IF ~validar_formato_fecha(d.sensor_date) THEN "sensor_date"
    ELSE "scraped_at"

\* C7 as claimed: the rejection of an authorized invalid record names first
\* the field of the first failing check in the order envelope, unit, timestamp.
C7_Claim ==
    (last.code = "ValidationError" /\ last.key # NoKey) =>
        Head(last.errors) = FirstFailingAsClaimed(last.dato)

\* C8: a stored row is never changed and never removed.
C8_RowsKept == [][\A r \in registros : r \in registros']_vars

C8_Witness ==
    /\ last.code = "IntegrityError"
    /\ \E r \in registros : SameTriple(r, last.dato) /\ r.value # last.dato.value

\* some fixed order of processing: the rows after the records of S
RECURSIVE SerialIngest(_)
SerialIngest(S) ==
    IF S = {} THEN {}
    ELSE LET d == CHOOSE x \in S : TRUE IN Commit(SerialIngest(S \ {d}), d)

PlainProvider == wThrottles = 0 /\ wExit \in {"none", "empty"}

\* C10 as claimed: for a history of three non-empty pages the loop hands
\* pages 1, 2, 3 to the sink and ends without a fourth GET.
C10_Claim ==
    (wPc = "done" /\ PlainProvider /\ NumPages(provRecords) = 3) =>
        /\ wEmitted = <<1, 2, 3>>
        /\ wAttempts <= 3

\* C10 amended: for a history of n non-empty pages (n = 3 in the claim) the
\* loop hands pages 1..n to the sink in order and ends on GET number n + 1,
\* the one that returns the empty page; no GET follows it.
C10_Exhaustion ==
    /\ (wPc = "done" /\ PlainProvider) =>
          /\ wEmitted = [i \in 1..NumPages(provRecords) |-> i]
          /\ wAttempts = NumPages(provRecords) + 1
          /\ wPosts = provRecords
    /\ (wPc = "done" /\ PlainProvider /\ NumPages(provRecords) = 3) =>
          /\ wEmitted = <<1, 2, 3>>
          /\ wAttempts = 4

C10_Witness ==
    /\ wPc = "done"
    /\ PlainProvider
    /\ NumPages(provRecords) = 3
    /\ wEmitted = <<1, 2, 3>>
    /\ wAttempts = 4

Pages(log) == [i \in 1..Len(log) |-> log[i].page]

Answers(log) == [i \in 1..Len(log) |-> log[i].answer]

\* C11: a GET answered 429 hands nothing to the sink, leaves the page number
\* and is followed by the cooldown; the GET after a 429 asks for the same page
\* of the same sensor and year; the pages handed to the sink are always 1, 2,
\* ... without duplicate or gap; and against a provider that answers 429 to
\* the first two GETs of page 2 of a three-page history the loop asks for
\* pages 1, 2, 2, 2, 3, 4 and hands over exactly 1, 2, 3.
C11_ThrottleRecovery ==
    /\ [](/\ \A i \in 1..Len(wLog) :
               (wLog[i].answer = "429" /\ i < Len(wLog)) =>
                   /\ wLog[i + 1].page = wLog[i].page
                   /\ wLog[i + 1].sensor = wLog[i].sensor
                   /\ wLog[i + 1].year = wLog[i].year
          /\ wEmitted = [i \in 1..Len(wEmitted) |-> i]
          /\ Len(wEmitted) = Cardinality({i \in 1..Len(wLog) : wLog[i].answer = "ok"})
          /\ Answers(wLog) = <<"ok", "429", "429", "ok", "ok", "empty">> =>
                /\ Pages(wLog) = <<1, 2, 2, 2, 3, 4>>
                /\ wEmitted = <<1, 2, 3>>)
    /\ [][(Len(wLog') = Len(wLog) + 1 /\ wLog'[Len(wLog')].answer = "429") =>
            /\ wEmitted' = wEmitted
            /\ wPosts' = wPosts
            /\ wPage' = wPage
            /\ wPc' = "cooldown"]_vars

C11_Witness ==
    /\ wPc = "done"
    /\ Answers(wLog) = <<"ok", "429", "429", "ok", "ok", "empty">>
    /\ Pages(wLog) = <<1, 2, 2, 2, 3, 4>>
    /\ wEmitted = <<1, 2, 3>>

\* C12 as claimed: the page loop of a work unit is left after finitely many
\* GETs, also when the provider answers 429 to every GET.
C12_Claim == <>(wPc = "done")

(***************************************************************************)
(* Properties of the sweep                                                 *)
(***************************************************************************)
\* the id of the first sensor of the list that measures parameter p_id, 0 if
\* there is none
FirstMatch(sensors, p_id) ==
    IF \E i \in 1..Len(sensors) : sensors[i].parameter.id = p_id
    THEN sensors[CHOOSE i \in 1..Len(sensors) :
                    /\ sensors[i].parameter.id = p_id
                    /\ \A j \in 1..(i - 1) : sensors[j].parameter.id # p_id].id
    ELSE 0

\* the work units of a provider: the first sensor of each pollutant at each
\* of its locations, for each year
WorkUnits(w) ==
    UNION {{<<FirstMatch(w.sensors[w.locations[p][l].id], POLLUTANT_IDS[p].id), y>> :
               l \in 1..Len(w.locations[p]), y \in 1..Len(TARGET_YEARS)} :
           p \in 1..Len(w.locations)}
    \ {<<0, y>> : y \in 1..Len(TARGET_YEARS)}

\* failures of the discovery calls so far: those that are neither a page
\* answer nor a post
DiscoveryFaults ==
    hFaults - Cardinality({i \in 1..Len(wLog) : wLog[i].answer \notin {"ok", "empty"}})
            - Cardinality({i \in 1..Len(hPosts) : hPosts[i].outcome # "saved"})

\* C13: a page GET that ends in a status other than 200 and 429, in an
\* exception (connection error, timeout) or in a body that is no JSON leaves
\* the page loop of its work unit, no later GET asks for a page of that unit,
\* and the run still walks every other work unit before it ends.
C13_PageFailure ==
    /\ [](/\ \A i, j \in 1..Len(wLog) :
               (i < j /\ wLog[i].answer \in {"status", "exception"}) =>
                   <<wLog[j].sensor, wLog[j].year>> # <<wLog[i].sensor, wLog[i].year>>
          /\ (hPc = "end" /\ provWorld.configured /\ DiscoveryFaults = 0) =>
                \A u \in WorkUnits(provWorld) :
                    \E i \in 1..Len(wLog) : <<wLog[i].sensor, wLog[i].year>> = u)
    /\ [][(/\ Len(wLog') = Len(wLog) + 1
           /\ wLog'[Len(wLog')].answer \in {"status", "exception"}) =>
              /\ wPc' = "done"
              /\ wPosts' = wPosts
              /\ raw' = raw]_vars

C13_Witness ==
    /\ hPc = "end"
    /\ DiscoveryFaults = 0
    /\ \E i, j \in 1..Len(wLog) :
          /\ i < j
          /\ wLog[i].answer = "exception"
          /\ wLog[i].page = 2
          /\ wLog[j].sensor # wLog[i].sensor

\* a step of the sweep that issues a GET to the provider
UpstreamCall ==
    \/ StepA_Ok \/ StepA_BadStatus \/ StepA_Raised
    \/ StepB_Answered \/ StepB_Raised \/ StepB_NoResults
    \/ WalkOk \/ WalkThrottled \/ WalkBadStatus \/ WalkRaised \/ WalkNoResults

\* C15 as claimed: a work unit that sleeps for the cooldown holds nothing
\* that the other work units wait for: while it sleeps, with work units
\* still to be walked, a call to the provider can be issued.
C15_Claim ==
    (hPc = "walk" /\ wPc = "cooldown" /\ hYear < Len(TARGET_YEARS)) =>
        ENABLED UpstreamCall

\* the posts of run r, in order
RunPosts(r) == SelectSeq(hPosts, LAMBDA e : e.run = r)

\* C16 as claimed: with one location, one sensor and a history of a full
\* page and one record, the first run posts PageLimit + 1 records, all
\* accepted; a second run posts the same records, none is accepted, and the
\* sink holds what it held after the first run.
C16_Claim ==
    (hPc = "end" /\ hRun = 2 /\ hFaults = 0) =>
        /\ Len(RunPosts(1)) = PageLimit + 1
        /\ \A i \in 1..Len(RunPosts(1)) : RunPosts(1)[i].outcome = "saved"
        /\ [i \in 1..Len(RunPosts(2)) |-> RunPosts(2)[i].data]
             = [i \in 1..Len(RunPosts(1)) |-> RunPosts(1)[i].data]
        /\ \A i \in 1..Len(RunPosts(2)) : RunPosts(2)[i].outcome # "saved"
        /\ Cardinality(raw) = PageLimit + 1

\* the lines the sweep prints about its configuration, its discovery calls
\* and its page requests
SweepLines ==
    {"Starting mass extraction", "ERROR: Check your configuration",
     "Searching for locations", "Found locations", "API Error searching locations",
     "Connection error", "Error getting sensors", "Downloading history",
     "API Paused 45s (Rate Limit)", "Error reading measurements",
     "HISTORICAL SWEEP COMPLETE"}

\* C17 as claimed: when the run has ended, what it reported accounts for
\* every submission (one line or count per post, whatever its outcome) and
\* for every work unit abandoned on a failed page request.
C17_Claim ==
    hPc = "end" =>
        /\ Cardinality({i \in 1..Len(hPrinted) : hPrinted[i] \notin SweepLines})
             = Len(hPosts)
        /\ Cardinality({i \in 1..Len(hPrinted) : hPrinted[i] = "Error reading measurements"})
             = Cardinality({i \in 1..Len(wLog) : wLog[i].answer \in {"status", "exception"}})

ErrorLines ==
    {"ERROR: Check your configuration", "API Error searching locations",
     "Connection error", "Error getting sensors", "Error reading measurements"}

\* C18: when the sensors of a location are answered and none measures the
\* pollutant, the sweep starts no page loop, asks for no measurement, prints
\* no error and goes on to the next location (or pollutant); when one does,
\* the page loop starts at page 1 for the first such sensor.  Every
\* measurement GET and every post is for the first matching sensor of a
\* location.
C18_NoSensorSkip ==
    /\ [](/\ \A i \in 1..Len(wLog) :
               \E u \in WorkUnits(provWorld) : u[1] = wLog[i].sensor
          /\ \A i \in 1..Len(hPosts) :
               \E p \in 1..Len(POLLUTANT_IDS) :
                  \E l \in 1..Len(provWorld.locations[p]) :
                     LET loc == provWorld.locations[p][l] IN
                     /\ hPosts[i].data.parameter = POLLUTANT_IDS[p].name
                     /\ hPosts[i].data.station_name = loc.name
                     /\ hPosts[i].data.station_uid
                          = FirstMatch(provWorld.sensors[loc.id], POLLUTANT_IDS[p].id))
    /\ [][(hPc = "sensors" /\ hFaults' = hFaults) =>
            LET m == FirstMatch(provWorld.sensors[hLocations[hLoc].id],
                                POLLUTANT_IDS[hPol].id)
            IN  IF m = 0
                THEN /\ wLog' = wLog
                     /\ wPc' = "off"
                     /\ hSensor' = 0
                     /\ hPc' # "walk"
                     /\ \A i \in (Len(hPrinted) + 1)..Len(hPrinted') :
                           hPrinted'[i] \notin ErrorLines
                     /\ hLoc < Len(hLocations) => (hPc' = "sensors" /\ hLoc' = hLoc + 1)
                ELSE /\ hPc' = "walk"
                     /\ hSensor' = m
                     /\ wPc' = "fetch"
                     /\ wPage' = 1
                     /\ wLog' = wLog]_vars

C18_Witness ==
    /\ hPc = "end"
    /\ hFaults = 0
    /\ provWorld.sensors[1] = <<Sensor(10, 1), Sensor(11, 2), Sensor(12, 2)>>
    /\ \E i \in 1..Len(wLog) : wLog[i].sensor = 11
    /\ \E i \in 1..Len(wLog) : wLog[i].sensor = 10
    /\ \A i \in 1..Len(hPrinted) : hPrinted[i] \notin ErrorLines

(***************************************************************************)
(* Properties of the notifier                                              *)
(***************************************************************************)
\* the keys of the alerts a message lists
MessageKeys(m) ==
    IF m = None THEN {}
    ELSE {<<a.station_name, a.parameter, a.sensor_date>> :
             a \in {m.critical[i] : i \in 1..Len(m.critical)}
                   \cup {m.sensitive[i] : i \in 1..Len(m.sensitive)}
                   \cup {m.relative[i] : i \in 1..Len(m.relative)}}

\* the message of the cycle a step completes, None if it builds none
MessageBuilt ==
    IF Len(notified') = Len(notified) + 1 THEN notified'[Len(notified')].message
    ELSE None

\* C19 as claimed: a key recorded no longer ago than the retention window
\* stays in the set with its recorded time, and no message lists it.
C19_Claim ==
    [][\A k \in DOMAIN last_alerts_sent :
          now - last_alerts_sent[k] <= 4 =>
             /\ k \in DOMAIN last_alerts_sent'
             /\ last_alerts_sent'[k] = last_alerts_sent[k]
             /\ k \notin MessageKeys(MessageBuilt)]_vars

\* C19 amended: a key recorded less than the retention window ago stays in
\* the set with its recorded time and no message lists it; a key leaves the
\* set only at the start of a cycle, when it was recorded the window or
\* longer ago; so two messages that list the same key lie at least the
\* window apart.
C19_Dedup ==
    /\ [][\A k \in DOMAIN last_alerts_sent :
             /\ now - last_alerts_sent[k] < 4 =>
                   /\ k \in DOMAIN last_alerts_sent'
                   /\ last_alerts_sent'[k] = last_alerts_sent[k]
                   /\ k \notin MessageKeys(MessageBuilt)
             /\ (k \notin DOMAIN last_alerts_sent'
                 \/ last_alerts_sent'[k] # last_alerts_sent[k]) =>
                   now - last_alerts_sent[k] >= 4]_vars
    /\ [](\A i, j \in 1..Len(notified) :
             (i < j /\ MessageKeys(notified[i].message)
                         \cap MessageKeys(notified[j].message) # {}) =>
                notified[j].at - notified[i].at >= 4)

\* a key listed, offered again inside the window and passed over, and listed
\* again once the window has passed
C19_Witness ==
    /\ Len(notified) = 3
    /\ <<"B", "no2", MaxTime + 1>> \in MessageKeys(notified[1].message)
    /\ \E i \in 1..Len(notified[2].alerts) : notified[2].alerts[i].station_name = "B"
    /\ notified[2].at < notified[1].at + 4
    /\ <<"B", "no2", MaxTime + 1>> \notin MessageKeys(notified[2].message)
    /\ <<"B", "no2", MaxTime + 1>> \in MessageKeys(notified[3].message)

\* C26 as claimed: a key is in the already-notified set only if a message
\* that lists it was delivered.
C26_Claim ==
    \A k \in DOMAIN last_alerts_sent :
        \E i \in 1..Len(notified) :
            /\ notified[i].delivered
            /\ k \in MessageKeys(notified[i].message)

\* C27 as claimed: every key a call of format_alert_message records is the
\* key of an alert the message it returns lists.
C27_Claim ==
    [][\A k \in DOMAIN last_alerts_sent' :
          k \notin DOMAIN last_alerts_sent => k \in MessageKeys(MessageBuilt)]_vars

\* C28: a key whose sensor_date is not later than the time of a cycle whose
\* message lists it is listed by no later message of the process: within
\* the retention window the key is in the set and passed over, and once it
\* is evicted its alert is older than the window of the query.
C28_AtMostOnce ==
    \A i, j \in 1..Len(notified) :
        i < j =>
            \A k \in MessageKeys(notified[i].message) :
                k[3] <= notified[i].at => k \notin MessageKeys(notified[j].message)

\* an alert listed, offered again in the same half hour and passed over, and
\* a cycle after its key was evicted that lists another alert
C28_Witness ==
    /\ Len(notified) = 3
    /\ <<"A", "pm25", 0>> \in MessageKeys(notified[1].message)
    /\ notified[1].at = 0
    /\ \E i \in 1..Len(notified[2].alerts) : alert_key(notified[2].alerts[i]) = <<"A", "pm25", 0>>
    /\ notified[3].at >= 4
    /\ <<"A", "pm25", 0>> \notin DOMAIN last_alerts_sent
    /\ notified[3].message # None

(***************************************************************************)
(* Properties of the registration                                          *)
(***************************************************************************)
NameTaken(users, name) == \E u \in users : u.username = name

\* C20: a registration of a name that exists is refused (400 from the
\* select, or the primary key's IntegrityError when two registrations of one
\* name race) and changes no credential; a registration of a new name with
\* a token not in use adds exactly that one credential and answers its
\* token; no credential is ever changed or removed; and no two credentials
\* share a name.
C20_Registration ==
    /\ [][/\ \A u \in usuarios : u \in usuarios'
          /\ \A c \in Clients :
                /\ (req[c].pc = "idle" /\ req'[c].pc = "registrar") =>
                      ~NameTaken(usuarios, req'[c].username)
                /\ (req[c].pc = "registrar" /\ req'[c].pc = "idle") =>
                      IF NameTaken(usuarios, req[c].username)
                      THEN /\ usuarios' = usuarios
                           /\ last'.code = "IntegrityError"
                      ELSE (\A u \in usuarios : u.api_key # req[c].api_key) =>
                              /\ usuarios' = usuarios \cup
                                    {[username |-> req[c].username,
                                      api_key |-> req[c].api_key]}
                              /\ Cardinality(usuarios') = Cardinality(usuarios) + 1
                              /\ last'.code = "Created"
                              /\ last'.api_key = req[c].api_key
          /\ (req' = req /\ last' # last) =>
                /\ last'.code = "UserExists"
                /\ NameTaken(usuarios, last'.username)
                /\ usuarios' = usuarios]_vars
    /\ [](\A u, v \in usuarios : u.username = v.username => u = v)

C20_Witness ==
    /\ last.code = "UserExists"
    /\ Cardinality(usuarios) = 2
    /\ \E u \in usuarios : u.username = last.username
    /\ \E c \in Clients : req[c].pc = "registrar" /\ NameTaken(usuarios, req[c].username)

\* the measurement GETs of work unit u, in order
UnitLog(u) == SelectSeq(wLog, LAMBDA e : <<e.sensor, e.year>> = u)

\* the number of measurements the provider holds for work unit u
Held(u) == IF u \in DOMAIN provWorld.history THEN provWorld.history[u] ELSE 0

\* posts holds a post of every record of page q of work unit u
PageHandedIn(posts, u, q) ==
    \A k \in ((q - 1) * PageLimit + 1)..(q * PageLimit) :
        k <= Held(u) =>
            \E i \in 1..Len(posts) :
                /\ posts[i].data.station_uid = u[1]
                /\ posts[i].data.date = <<TARGET_YEARS[u[2]], k>>

PageHanded(u, q) == PageHandedIn(hPosts, u, q)

\* C23: the GETs of a work unit start at page 1; each next GET asks for the
\* same page, or, exactly when the GET before it was answered 200 with
\* records, for the page after it; a requested page has every lower page
\* answered and all its records posted; and the page number goes up only by
\* one, in the step that logs the 200 answer, posts every record of the page
\* and notes the page as handed over.
C23_PageOrder ==
    /\ [](\A u \in WorkUnits(provWorld) :
             LET L == UnitLog(u) IN
             /\ L # <<>> => L[1].page = 1
             /\ \A i \in 1..(Len(L) - 1) :
                   /\ L[i + 1].page >= L[i].page
                   /\ L[i + 1].page = IF L[i].answer = "ok" THEN L[i].page + 1
                                      ELSE L[i].page
             /\ \A i \in 1..Len(L) :
                   \A q \in 1..(L[i].page - 1) :
                      /\ \E j \in 1..(i - 1) : L[j].page = q /\ L[j].answer = "ok"
                      /\ PageHanded(u, q))
    /\ [][(wPage > 0 /\ wPage' > wPage) =>
            /\ wPage' = wPage + 1
            /\ Len(wLog') = Len(wLog) + 1
            /\ wLog'[Len(wLog')] = [sensor |-> hSensor, year |-> hYear, page |-> wPage,
                                    answer |-> "ok"]
            /\ Len(hPosts') > Len(hPosts)
            /\ ~PageHandedIn(hPosts, <<hSensor, hYear>>, wPage)
            /\ PageHandedIn(hPosts', <<hSensor, hYear>>, wPage)
            /\ wEmitted' = Append(wEmitted, wPage)
            /\ wPc' = "pace"]_vars

\* a unit of three records walked with one 429 on its second page
C23_Witness ==
    /\ hPc = "end"
    /\ \E u \in WorkUnits(provWorld) :
          /\ Pages(UnitLog(u)) = <<1, 2, 2, 3>>
          /\ Answers(UnitLog(u)) = <<"ok", "429", "ok", "empty">>
          /\ PageHanded(u, 1) /\ PageHanded(u, 2)
          /\ Held(u) = PageLimit + 1

\* the discovery GETs of one kind, in order
CallsOf(kind) == SelectSeq(hCalls, LAMBDA e : e.call = kind)

C25_Claim ==
    \A i \in 1..Len(hPosts) :
        /\ DOMAIN hPosts[i].data
             = {"source", "station_uid", "station_name", "lat", "lon", "sensor_date",
                "scraped_at", "parameter", "value", "unit"}
        /\ hPosts[i].data.value \in Int

(***************************************************************************)
(* Properties of the raw sink                                              *)
(***************************************************************************)
\* the request a step serves, if it serves one that changes the sink's answer
\* or table
Served == sLast' # sLast \/ raw' # raw

\* C29: a request whose body is JSON, with the database connected and the
\* insert going through, is answered "saved" (status 200) and adds exactly
\* one row that holds the body as sent, whatever the body is and whether or
\* not the table holds the same body already; a request whose body is no
\* JSON, or that meets a failing connection or insert, is answered 500 and
\* adds no row.  No row is ever changed or removed, and the ids of the rows
\* are 1, 2, ... in the order of insertion.
C29_RawSink ==
    /\ [][Served =>
            /\ \A r \in raw : r \in raw'
            /\ IF sLast'.body # [notjson |-> TRUE] /\ sLast'.db = "up"
               THEN /\ sLast'.status = 200
                    /\ sLast'.answer = "saved"
                    /\ Cardinality(raw') = Cardinality(raw) + 1
                    /\ \E r \in raw' : /\ r \notin raw
                                       /\ r.raw_data = sLast'.body
                                       /\ r.id = Cardinality(raw) + 1
               ELSE /\ sLast'.status = 500
                    /\ raw' = raw]_vars
    /\ []({r.id : r \in raw} = 1..Cardinality(raw))

\* the same payload stored twice, and a document that is no measurement
C29_Witness ==
    /\ \E r, q \in raw : r.id # q.id /\ r.raw_data = q.raw_data
    /\ \E r \in raw : r.raw_data = [anything |-> 1]
    /\ sLast.status = 500
    /\ Cardinality(raw) = 3

(***************************************************************************)
(* Properties of an operator's stop                                        *)
(***************************************************************************)
\* C21 as claimed: once the stop is raised, a page loop that waits in its
\* pacing delay or in its cooldown does not wake up to another GET, and no
\* further measurement page is asked for.
C21_Claim ==
    [][hSignal =>
          /\ ~(hPc = "walk" /\ wPc \in {"cooldown", "pace"} /\ wPc' = "fetch")
          /\ wLog' = wLog]_vars

(***************************************************************************)
(* Properties of the live cycle                                            *)
(***************************************************************************)
\* C22 as claimed: the map call of the live cycle ends after bounded time,
\* in an answer or in Unavailable, also when the provider never answers.
C22_Claim == (lPc = "map") ~> (lPc # "map")

(***************************************************************************)
(* Properties of wait_for_database                                         *)
(***************************************************************************)
\* C30 as claimed: whatever the database does, wait_for_database returns,
\* in the notifier and in the dashboard.
C30_Claim == <>(dPc = "returned")

\* What holds of both versions: at most max_retries attempts are made, True
\* is returned right after the first attempt that connects, False after
\* max_retries attempts that all failed.
WaitReturns ==
    /\ dAttempt <= dMax
    /\ Len(dTries) = dAttempt
    /\ dResult = "True" =>
          /\ dTries[Len(dTries)] = "connected"
          /\ \A i \in 1..(Len(dTries) - 1) : dTries[i] # "connected"
    /\ dResult = "False" =>
          /\ Len(dTries) = dMax
          /\ \A i \in 1..Len(dTries) : dTries[i] # "connected"
====
